---------------------------- MODULE Spec2Model ----------------------------
(***************************************************************************)
(* chrono-flow: the change-detection pipeline.                             *)
(*                                                                         *)
(*   Spec      the process as wired in cmd/main: the scheduler runs one    *)
(*             detection cycle (Checker.CheckForUpdates) at a time against *)
(*             the SQLite repository; the process may stop and start again *)
(*             on the same database file.                                  *)
(*   SpecRepo  the repository alone (GetState / UpdateState) under two     *)
(*             callers that are not serialized.                            *)
(*   SpecDiff  detectChanges as a pure function of two product lists.      *)
(*   SpecNotify  Bot.SendChangesNotification alone, called with a Delta.   *)
(*   SpecParse parseTableResponse alone, called by a cycle with a document.*)
(*   SpecBot   the bot: the command handlers (/start, /subscribe,          *)
(*             /unsubscribe from any chat) running beside the scheduler's  *)
(*             calls of SendChangesNotification, over the subscriptions    *)
(*             table, empty at first.                                      *)
(*   SpecShutdown  Spec for one run of the process, with the fairness of   *)
(*             the scheduler goroutine: its steps are taken, and the       *)
(*             select does not pass over a ready ctx.Done() for ever.      *)
(*   SpecFormat    formatChangesMessage alone, on Deltas short and long.   *)
(*   SpecStore the two persisted states side by side: callers of GetState  *)
(*             and UpdateState and the command handlers, over one database.*)
(*                                                                         *)
(* In Spec, runCheck hands a non-empty Delta to SendChangesNotification,   *)
(* and main's ctx may be cancelled at any moment.                          *)
(***************************************************************************)
EXTENDS Integers, Sequences, FiniteSets, TLC

\* Longest product list handed to detectChanges in SpecDiff.
MaxLen == 2

\* Largest number of table rows of a fetched page.
MaxRows == 2

\* The most rows of the subscriptions table.
MaxSubs == 2

(***************************************************************************)
(* Go values.  A pointer is a sequence of length 0 (nil) or 1.             *)
(***************************************************************************)
nil == <<>>

Ptr(x) == <<x>>

Deref(p) == p[1]

Range(s) == {s[i] : i \in DOMAIN s}

SeqsUpTo(S, n) == UNION {[1..k -> S] : k \in 0..n}

\* Every order in which Go's range may visit the keys of a map.
Perms(S) == {f \in [1..Cardinality(S) -> S] : \A i, j \in 1..Cardinality(S) : f[i] = f[j] => i = j}

(***************************************************************************)
(* models.Product, models.State, models.Changes                            *)
(***************************************************************************)
Product(model, type, quantity, imageURL, price) ==
    [Model |-> model, Type |-> type, Quantity |-> quantity, ImageURL |-> imageURL, Price |-> price]

State(pageHash, prods) == [PageHash |-> pageHash, Products |-> prods]

ChangeInfo(old, new) == [Old |-> old, New |-> new]

EmptyChanges == [Added |-> <<>>, Removed |-> <<>>, Changed |-> <<>>]

\* Every Delta taken to hold a change (a mutant of HasChanges).
HasChangesAlways(c) == TRUE

\* Only added records counted as a change (a mutant of HasChanges).
HasChangesAddedOnly(c) == Len(c.Added) > 0

HasChanges(c) == Len(c.Added) > 0 \/ Len(c.Removed) > 0 \/ Len(c.Changed) > 0

\* The products detectChanges is exercised on: one model in five variants
\* (each attribute changed alone), a second model in two, a third in one.
ProductUniverse ==
    { Product("A1", "t1", "5", "u1", "100"),
      Product("A1", "t1", "5", "u1", "110"),
      Product("A1", "t1", "> 3", "u1", "100"),
      Product("A1", "t2", "5", "u1", "100"),
      Product("A1", "t1", "5", "u2", "100"),
      Product("B2", "t1", "5", "u1", "200"),
      Product("B2", "t1", "5", "u1", "210"),
      Product("C3", "t1", "5", "u1", "300") }

ProductLists == SeqsUpTo(ProductUniverse, MaxLen)

(***************************************************************************)
(* detectChanges (checker.go).  A Go map is a function whose domain is the *)
(* set of keys.                                                            *)
(***************************************************************************)
EmptyMap == [k \in {} |-> k]

\* m[k] = v, keeping the first value written for a key (a mutant of MapSet).
MapSetFirstWins(m, k, v) ==
    [x \in DOMAIN m \cup {k} |-> IF x \in DOMAIN m THEN m[x] ELSE v]

\* oldMap[p.Model] = p
MapSet(m, k, v) ==
    [x \in DOMAIN m \cup {k} |-> IF x = k THEN v ELSE m[x]]

\* delete(oldMap, newModel) left out (a mutant of MapDelete).
MapDeleteNothing(m, k) == m

\* delete(oldMap, newModel)
MapDelete(m, k) == [x \in DOMAIN m \ {k} |-> m[x]]

RECURSIVE ToMapFrom(_, _)
ToMapFrom(prods, m) ==
    IF prods = <<>> THEN m
    ELSE ToMapFrom(Tail(prods), MapSet(m, Head(prods).Model, Head(prods)))

\* for _, p := range products { m[p.Model] = p }
ToMap(prods) == ToMapFrom(prods, EmptyMap)

\* The comparison with the quantity left out (a mutant of Differs).
DiffersPriceOnly(newProduct, oldProduct) == newProduct.Price # oldProduct.Price

\* newProduct.Price != oldProduct.Price || newProduct.Quantity != oldProduct.Quantity
Differs(newProduct, oldProduct) ==
    newProduct.Price # oldProduct.Price \/ newProduct.Quantity # oldProduct.Quantity

\* changes.Added = append(changes.Added, newProduct)
AppendAdded(changes, newProduct) == [changes EXCEPT !.Added = Append(@, newProduct)]

\* for newModel, newProduct := range newMap { ... }, visiting the keys in `order'.
RECURSIVE RangeNew(_, _, _, _)
RangeNew(order, oldMap, newMap, changes) ==
    IF order = <<>> THEN [oldMap |-> oldMap, changes |-> changes]
    ELSE LET newModel   == Head(order)
             newProduct == newMap[newModel]
         IN  IF newModel \in DOMAIN oldMap
             THEN LET oldProduct == oldMap[newModel]
                      ch == IF Differs(newProduct, oldProduct)
                            THEN [changes EXCEPT !.Changed = Append(@, ChangeInfo(oldProduct, newProduct))]
                            ELSE changes
                  IN  RangeNew(Tail(order), MapDelete(oldMap, newModel), newMap, ch)
             ELSE RangeNew(Tail(order), oldMap, newMap, AppendAdded(changes, newProduct))

\* for _, removedProduct := range oldMap { ... }, visiting the keys in `order'.
RECURSIVE RangeOld(_, _, _)
RangeOld(order, oldMap, changes) ==
    IF order = <<>> THEN changes
    ELSE RangeOld(Tail(order), oldMap,
                  [changes EXCEPT !.Removed = Append(@, oldMap[Head(order)])])

\* The results detectChanges may return: one for each iteration order of the
\* two maps.
detectChanges(oldProducts, newProducts) ==
    LET oldMap == ToMap(oldProducts)
        newMap == ToMap(newProducts)
    IN  UNION { LET r == RangeNew(iterNew, oldMap, newMap, EmptyChanges)
                IN  { RangeOld(iterOld, r.oldMap, r.changes) : iterOld \in Perms(DOMAIN r.oldMap) }
                : iterNew \in Perms(DOMAIN newMap) }

(***************************************************************************)
(* The fetched page and parseTableResponse.  A page is the sequence of its *)
(* table rows, a row the sequence of its cells, a cell the sequence of its *)
(* tokens: " " is white space, any other token a run of text.              *)
(***************************************************************************)
Cell(text) == <<text>>

Padded(text) == <<" ", text, " ">>

\* strings.TrimSpace on a cell with at most one run of text.
TrimSpace(cell) ==
    LET text == SelectSeq(cell, LAMBDA t : t # " ")
    IN  IF text = <<>> THEN "" ELSE text[1]

numberOfCells == 5

modelIdx == 0

typeIdx == 1

quantityIdx == 2

imageIdx == 3

priceIdx == 4

RowA == <<Cell("A1"), Cell("t1"), Cell("5"), Cell("u1"), Cell("100")>>

RowAPrice == <<Cell("A1"), Cell("t1"), Cell("5"), Cell("u1"), Cell("110")>>

RowAType == <<Cell("A1"), Cell("t2"), Cell("5"), Cell("u1"), Cell("100")>>

RowB == <<Padded("B2"), Cell("t1"), Cell("5"), Cell("u1"), Padded("200")>>

RowShort == <<Cell("B2"), Cell("t1"), Cell("5"), Cell("u1")>>

RowLong == <<Cell("C3"), Cell("t1"), Cell("5"), Cell("u1"), Cell("300"), Cell("x")>>

\* The rows a fetched page is made of.
RowList == <<RowA, RowAPrice, RowAType, RowB, RowShort>>

Pages == SeqsUpTo(Range(RowList), MaxRows)

\* The rows of the documents parseTableResponse is exercised on alone: those
\* of a fetched page and a row of six cells.
ParseRows == RowList \o <<RowLong>>

ParsePages == SeqsUpTo(Range(ParseRows), MaxRows + 1)

\* The row's product: cells.Eq(i).Text() trimmed, for the five columns.
RowProduct(cells) ==
    Product(TrimSpace(cells[modelIdx + 1]), TrimSpace(cells[typeIdx + 1]),
            TrimSpace(cells[quantityIdx + 1]), TrimSpace(cells[imageIdx + 1]),
            TrimSpace(cells[priceIdx + 1]))

\* A row of five cells or more taken for a product row (a mutant of
\* IsProductRow).
IsProductRowAtLeast(cells) == Len(cells) >= numberOfCells

\* if cells.Length() == numberOfCells
IsProductRow(cells) == Len(cells) = numberOfCells

\* doc.Find(".table-bordered tbody tr").Each(...): a row of five cells gives a
\* product, any other row is skipped.
RECURSIVE parseTableResponse(_)
parseTableResponse(page) ==
    IF page = <<>> THEN <<>>
    ELSE IF IsProductRow(Head(page))
         THEN <<RowProduct(Head(page))>> \o parseTableResponse(Tail(page))
         ELSE parseTableResponse(Tail(page))

\* calculateHash: SHA-256 in hex, taken to be free of collisions.  The digest
\* of a page is the number whose digits, in base Len(ParseRows) + 1, are the
\* positions of its rows in ParseRows.
RowCode(row) == CHOOSE i \in DOMAIN ParseRows : ParseRows[i] = row

RECURSIVE HashFrom(_, _)
HashFrom(data, h) ==
    IF data = <<>> THEN h
    ELSE HashFrom(Tail(data), h * (Len(ParseRows) + 1) + RowCode(Head(data)))

calculateHash(data) == HashFrom(data, 0)

\* The snapshot a cycle builds from a page.
SnapshotOf(page) == State(calculateHash(page), parseTableResponse(page))

(***************************************************************************)
(* Errors.                                                                 *)
(***************************************************************************)
NoError == "nil"

ErrStateNotFound == "state not found"

\* The error UpdateState returns when an INSERT repeats the primary key of
\* products: its "failed to insert product" wrapping the constraint failure.
ErrUnique == "failed to insert product: UNIQUE constraint failed: products.model"

\* A failed query of the fingerprint taken for "no state yet" as well (a mutant
\* of IsNotFound).
IsNotFoundOrQueryError(err) == err \in {ErrStateNotFound, "failed to get page hash"}

\* Every error of GetState taken for "no state yet" (a mutant of IsNotFound).
IsNotFoundAnyError(err) == err # NoError

\* errors.Is(err, repository.ErrStateNotFound)
IsNotFound(err) == err = ErrStateNotFound

(***************************************************************************)
(* The SQLite database: table page_state (at most the row id = 1) and      *)
(* table products (primary key model), each the sequence of its rows.      *)
(***************************************************************************)
EmptyDB == [page_state |-> <<>>, products |-> <<>>]

\* INSERT OR IGNORE: the row of page_state kept when there is one (a mutant of
\* ReplaceHash).
IgnoreHash(working, pageHash) ==
    IF working.page_state = <<>> THEN [working EXCEPT !.page_state = <<pageHash>>]
    ELSE working

\* INSERT OR REPLACE INTO page_state (id, page_hash) VALUES (1, ?)
ReplaceHash(working, pageHash) == [working EXCEPT !.page_state = <<pageHash>>]

\* The products table refuses a second row with the same model.
UniqueViolation(rows, p) == \E i \in DOMAIN rows : rows[i].Model = p.Model

\* The statements of a failed UpdateState staying in the database, as if each
\* ran outside the transaction (a mutant of Rollback).
RollbackKeepsWrites(committed, working) == working

\* The rows written to products by a failed UpdateState staying while the page
\* hash is restored (a mutant of Rollback).
RollbackKeepsProducts(committed, working) == [committed EXCEPT !.products = working.products]

\* defer tx.Rollback(): the database is what it was when the transaction began.
Rollback(committed, working) == committed

\* tx.Commit() installing the page hash alone (a mutant of Commit).
CommitHashOnly(committed, working) == [committed EXCEPT !.page_state = working.page_state]

\* tx.Commit() installing the products alone (a mutant of Commit).
CommitProductsOnly(committed, working) == [committed EXCEPT !.products = working.products]

\* tx.Commit(): the transaction's page_state and products become the database.
Commit(committed, working) == working

\* A call that takes ctx as if it took context.Background() (a mutant of CtxErr).
CtxErrNever(done) == FALSE

\* A call that takes ctx (client.Do of a request with ctx, QueryRowContext,
\* QueryContext, BeginTx, ExecContext, PrepareContext, and Commit of a
\* transaction begun with ctx) returns ctx.Err() once ctx is done.
CtxErr(done) == done

\* DELETE FROM products removing no row (a mutant of DeleteProducts).
DeleteNothing(working) == working

\* DELETE FROM products: every row of the table goes.
DeleteProducts(working) == [working EXCEPT !.products = <<>>]

\* sql.ErrNoRows also when the products table is empty (a mutant of ErrNoRows).
ErrNoRowsOrNoProducts(committed) == committed.page_state = <<>> \/ committed.products = <<>>

\* QueryRowContext(...).Scan answers sql.ErrNoRows: page_state has no row id = 1.
ErrNoRows(committed) == committed.page_state = <<>>

\* The hash comparison never answering "unchanged" (a mutant of HashUnchanged).
HashUnchangedNever(err, oldState, newPageHash) == FALSE

\* err == nil && oldState.PageHash == newPageHash
HashUnchanged(err, oldState, newPageHash) ==
    err = NoError /\ Deref(oldState).PageHash = newPageHash

\* detectChanges emptying the slice of old products it was given
\* (a mutant of SlicesAfterDetect).
SlicesAfterDetectCleared(oldProducts, newProducts) == <<<<>>, newProducts>>

\* The elements of the two slices handed to detectChanges once it returned:
\* a Go slice shares its backing array with the caller, and the body only
\* ranges over both slices and never assigns to an element.
SlicesAfterDetect(oldProducts, newProducts) == <<oldProducts, newProducts>>

\* oldProducts left empty whatever GetState returned (a mutant of OldProducts).
OldProductsNone(oldState) == <<>>

\* if oldState != nil { oldProducts = oldState.Products }
OldProducts(oldState) == IF oldState # nil THEN Deref(oldState).Products ELSE <<>>

(***************************************************************************)
(* The subscriptions table (chat_id INTEGER PRIMARY KEY) and the bot's     *)
(* allow-list.                                                             *)
(***************************************************************************)
\* The chats of the allow-list: the allowedIDs NewBot is given.
ChatIDs == {101, 102}

\* A chat that is not on the allow-list.
Strangers == {103}

\* The chats the bot receives commands from.
EventChats == ChatIDs \cup Strangers

SubscriberLists ==
    {l \in SeqsUpTo(ChatIDs, MaxSubs) : \A i, j \in DOMAIN l : l[i] = l[j] => i = j}

\* Every chat let in (a mutant of allowedChats).
allowedChatsEveryone(chatID) == TRUE

\* b.allowedChats[chatID]: allowedMap[id] = true for the ids of allowedIDs.
allowedChats(chatID) == chatID \in ChatIDs

\* A row added whether or not the chat has one (a mutant of InsertOrIgnore).
InsertAnyway(rows, chatID) == Append(rows, chatID)

\* INSERT OR IGNORE INTO subscriptions (chat_id) VALUES (?): chat_id is the
\* primary key, a second row for the chat is ignored.
InsertOrIgnore(rows, chatID) ==
    IF \E i \in DOMAIN rows : rows[i] = chatID THEN rows ELSE Append(rows, chatID)

\* The DELETE removing no row (a mutant of DeleteWhere).
DeleteNoRow(rows, chatID) == rows

\* DELETE FROM subscriptions WHERE chat_id = ?
DeleteWhere(rows, chatID) == SelectSeq(rows, LAMBDA r : r # chatID)

\* SELECT chat_id FROM subscriptions, scanned into a slice: every row once,
\* in an order the query does not fix.
SelectChatIDs(rows) ==
    {[i \in DOMAIN rows |-> rows[p[i]]] : p \in Perms(DOMAIN rows)}

\* The commit emptying the subscriptions table as well (a mutant of
\* SubscriptionsAfterCommit).
SubscriptionsDropped(rows) == IF rows = "untracked" THEN rows ELSE <<>>

\* The subscriptions table once UpdateState's transaction is committed: its
\* statements name page_state and products only.
SubscriptionsAfterCommit(rows) == rows

\* The table is not followed: the command handlers run in their own goroutine
\* and leave in it any rows of chats of the allow-list.
Untracked == "untracked"

VARIABLES
    db,            \* the committed database: [page_state, products]
    tx,            \* UpdateState's open transaction: nil or Ptr of its working copy
    u_pc,          \* UpdateState: "idle", "begin", "hash", "delete", "prepare", "insert", "ret"
    u_state,       \* UpdateState: the state argument (Ptr) of the call
    u_i,           \* UpdateState: index of the next product to insert
    u_err,         \* UpdateState: the error returned
    g_pc,          \* GetState: "idle", "hash", "rows", "ret"
    g_pageHash,    \* GetState: pageHash once scanned (a sequence of length <= 1)
    g_ret,         \* GetState: the (state, err) returned
    c_pc,          \* CheckForUpdates: "idle", "fetch", "read", "getState", "parse", "detect", "update", "ret"
    resp,          \* CheckForUpdates: the response (Ptr of the page served)
    body,          \* CheckForUpdates: the bytes read (Ptr of the page)
    newPageHash,   \* CheckForUpdates: calculateHash(body) (a sequence of length <= 1)
    oldState,      \* CheckForUpdates: the *models.State from GetState
    newProducts,   \* CheckForUpdates: the extractor's output
    changes,       \* CheckForUpdates: detectChanges' result
    c_ret,         \* CheckForUpdates: the (changes, err) returned
    s_pc,          \* main: "startup", "runCheck", "select", "stopped"
    inflight,      \* number of runCheck calls that have not returned
    hist,          \* what the properties need of the past (no effect on the program)
    d_pc,          \* SpecDiff: "off", "call" or "ret"
    d_old,         \* SpecDiff: the oldProducts argument
    d_new,         \* SpecDiff: the newProducts argument
    d_changes,     \* SpecDiff: the models.Changes returned
    n_pc,          \* SendChangesNotification: "idle", "guard", "subs", "send", "ret"
    n_changes,     \* SendChangesNotification: the changes argument (Ptr)
    n_subs,        \* SendChangesNotification: subscribers, once read
    n_i,           \* SendChangesNotification: index of the next subscriber
    n_attempted,   \* the chat IDs b.bot.Send was called for, in order
    n_failed,      \* the chat IDs whose Send returned an error (logged)
    n_err,         \* SendChangesNotification: the error returned
    cancelled,     \* main's ctx is done (SIGINT or SIGTERM was received)
    subscriptions, \* the rows (chat_id) of the subscriptions table, or Untracked
    b_left,        \* the chats b.bot.Leave was called for
    b_ret,         \* the last command handled: its chat, the reply sent, the error returned
    f_pc,          \* formatChangesMessage: "off", "call" or "ret"
    f_changes,     \* formatChangesMessage: the changes argument
    f_now,         \* formatChangesMessage: time.Now() in the layout 02.01.2006
    f_text         \* formatChangesMessage: the string returned

dbVars == <<db>>

updVars == <<tx, u_pc, u_state, u_i, u_err>>

getVars == <<g_pc, g_pageHash, g_ret>>

cycleVars == <<c_pc, resp, body, newPageHash, oldState, newProducts, changes, c_ret>>

schedVars == <<s_pc, inflight>>

diffVars == <<d_pc, d_old, d_new, d_changes>>

botVars == <<subscriptions, b_left, b_ret>>

formatVars == <<f_pc, f_changes, f_now, f_text>>

notifyVars == <<n_pc, n_changes, n_subs, n_i, n_attempted, n_failed, n_err>>

ctxVars == <<cancelled>>

vars == <<dbVars, updVars, getVars, cycleVars, schedVars, hist, diffVars, formatVars, botVars, notifyVars, ctxVars>>

NoGetRet == [state |-> nil, err |-> NoError]

NoCycleRet == [changes |-> nil, err |-> NoError]

NoCalls == [parse |-> 0, detect |-> 0, update |-> 0]

\* hist.pre      the database when the cycle began
\* hist.upre     the database when UpdateState was called
\* hist.calls    calls of ParseTableResponse, detectChanges, UpdateState in this cycle
\* hist.fail     the collaborator call that failed in this cycle ("fetch", "read",
\*               "getState", "parse", or UpdateState's error), or "none"
\* hist.getErr   the error GetState returned to this cycle ("" before it returns)
\* hist.prev     Ptr of the hash of the bytes fetched by the previous cycle, if it
\*               returned no error
\* hist.first    the cycle is the one run at startup
\* hist.subsequent  the GetState call began after a failed UpdateState returned,
\*               and no UpdateState was called since
\* hist.quiet    the GetState call began while no UpdateState call was running,
\*               and no UpdateState was called since
\* hist.cancelAt the point of the cycle at which ctx was cancelled ("" when it
\*               was not, "before" when it was before the cycle began)
\* hist.notified the Deltas runCheck handed to SendChangesNotification in this call
\* hist.lastPre  hist.last when the cycle began
\* hist.prevFailed  the previous cycle returned an error
\* hist.lastBody the bytes fetched (Ptr) by the last cycle whose UpdateState
\*               returned nil, or nil when none did
\* hist.lastSnap the fingerprint of these bytes and the extractor's output for
\*               them (Ptr of a State), or nil
\* hist.lastOp   for each chat, the last of SubscribeChat and UnsubscribeChat
\*               that returned nil for it ("none" when neither did)
\* hist.atRead   hist.lastOp when GetSubscribedChats last returned its rows
\* hist.steps    the collaborator operations this cycle called, in order
\* hist.got      the *models.State GetState returned to this cycle
\* hist.parsed   the records ParseTableResponse returned to this cycle
\* hist.last     the state argument (Ptr) of the last UpdateState call that
\*               returned nil, or nil when none did
NoHist ==
    [pre |-> EmptyDB, upre |-> EmptyDB, calls |-> NoCalls, fail |-> "none",
     getErr |-> "", prev |-> nil, first |-> FALSE, subsequent |-> FALSE,
     quiet |-> FALSE, last |-> nil, cancelAt |-> "", notified |-> <<>>,
     lastPre |-> nil, prevFailed |-> FALSE, got |-> nil, parsed |-> <<>>,
     steps |-> <<>>, lastBody |-> nil, lastSnap |-> nil,
     lastOp |-> [c \in EventChats |-> "none"], atRead |-> [c \in EventChats |-> "none"]]

\* The locals of CheckForUpdates before it runs.
CycleIdle ==
    /\ c_pc = "idle"
    /\ resp = nil
    /\ body = nil
    /\ newPageHash = <<>>
    /\ oldState = nil
    /\ newProducts = <<>>
    /\ changes = EmptyChanges
    /\ c_ret = NoCycleRet

RepoIdle ==
    /\ tx = nil
    /\ u_pc = "idle"
    /\ u_state = nil
    /\ u_i = 1
    /\ u_err = NoError
    /\ g_pc = "idle"
    /\ g_pageHash = <<>>
    /\ g_ret = NoGetRet

NotifyIdle ==
    /\ n_pc = "idle"
    /\ n_changes = nil
    /\ n_subs = <<>>
    /\ n_i = 1
    /\ n_attempted = <<>>
    /\ n_failed = {}
    /\ n_err = NoError

DiffOff ==
    /\ d_pc = "off"
    /\ d_old = <<>>
    /\ d_new = <<>>
    /\ d_changes = EmptyChanges

NoCommand == [chat |-> 0, reply |-> "", err |-> NoError]

\* No command was handled, and the table is not followed.
BotOff ==
    /\ subscriptions = Untracked
    /\ b_left = {}
    /\ b_ret = NoCommand

(***************************************************************************)
(* formatChangesMessage (handlers.go).  A Go string is a sequence of bytes *)
(* and len counts bytes; a string of the model has one character for each  *)
(* byte.  The five characters of the text that are not ASCII are written   *)
(* as many characters as their UTF-8 encoding has bytes.                   *)
(***************************************************************************)
maxMessageLength == 4096

\* U+1F4C5 (calendar), four bytes
Calendar == "{cal"

\* U+2705 (check mark), three bytes
CheckMark == "{ok"

\* U+1F504 (arrows), four bytes
Arrows == "{chg"

\* U+274C (cross mark), three bytes
CrossMark == "{no"

\* U+2022 (bullet), three bytes
Bullet == "{pt"

\* The byte 0x60 (grave accent), which no string literal here can hold
Backquote == "'"

\* The loop over changes.Added.
RECURSIVE AddedLines(_)
AddedLines(ps) ==
    IF ps = <<>> THEN ""
    ELSE Bullet \o " *Model*: " \o Backquote \o Head(ps).Model \o Backquote \o "\n  *Price*: " \o Head(ps).Price
             \o ", *Quantity*: " \o Head(ps).Quantity \o "\n" \o AddedLines(Tail(ps))

\* The loop over changes.Changed.
RECURSIVE ChangedLines(_)
ChangedLines(cs) ==
    IF cs = <<>> THEN ""
    ELSE LET change == Head(cs) IN
         Bullet \o " *Model*: " \o Backquote \o change.New.Model \o Backquote \o "\n"
         \o (IF change.New.Price # change.Old.Price
             THEN "  *Price*: " \o change.Old.Price \o " -> *" \o change.New.Price \o "*\n"
             ELSE "")
         \o (IF change.New.Quantity # change.Old.Quantity
             THEN "  *Quantity*: " \o change.Old.Quantity \o " -> *" \o change.New.Quantity \o "*\n"
             ELSE "")
         \o "\n" \o ChangedLines(Tail(cs))

\* The loop over changes.Removed.
RECURSIVE RemovedLines(_)
RemovedLines(ps) ==
    IF ps = <<>> THEN ""
    ELSE Bullet \o " *Model*: " \o Backquote \o Head(ps).Model \o Backquote \o "\n" \o RemovedLines(Tail(ps))

\* What the strings.Builder holds before the length is tested.
builder(c, now) ==
    Calendar \o " *Product updates (" \o now \o ")*\n\n"
    \o (IF Len(c.Added) > 0
        THEN CheckMark \o " *Added (" \o ToString(Len(c.Added)) \o "):*\n"
             \o AddedLines(c.Added) \o "\n"
        ELSE "")
    \o (IF Len(c.Changed) > 0
        THEN Arrows \o " *Changed (" \o ToString(Len(c.Changed)) \o "):*\n"
             \o ChangedLines(c.Changed) \o "\n"
        ELSE "")
    \o (IF Len(c.Removed) > 0
        THEN CrossMark \o " *Removed (" \o ToString(Len(c.Removed)) \o "):*\n"
             \o RemovedLines(c.Removed) \o "\n"
        ELSE "")

\* The text returned whatever its length (a mutant of formatChangesMessage).
formatWithoutLimit(c, now) == builder(c, now)

formatChangesMessage(c, now) ==
    IF Len(builder(c, now)) > maxMessageLength
    THEN SubSeq(builder(c, now), 1, maxMessageLength - 50)
             \o "\n\n... (the message was truncated)"
    ELSE builder(c, now)

FormatOff ==
    /\ f_pc = "off"
    /\ f_changes = EmptyChanges
    /\ f_now = ""
    /\ f_text = ""

(***************************************************************************)
(* Repository.UpdateState, one action per statement.  Every statement may  *)
(* fail (an I/O error, a locked database, a cancelled context).  When      *)
(* Commit fails the driver rolls the transaction back.                     *)
(***************************************************************************)
updOthers == <<getVars, cycleVars, schedVars, hist, diffVars, formatVars, botVars, notifyVars, ctxVars>>

\* return fmt.Errorf(...) after the transaction began: the deferred Rollback runs.
UpdateFails(err) ==
    /\ db' = Rollback(db, Deref(tx))
    /\ tx' = nil
    /\ u_err' = err
    /\ u_pc' = "ret"
    /\ UNCHANGED <<u_state, u_i>>

\* tx, err := r.db.BeginTx(ctx, nil)
U_Begin ==
    /\ u_pc = "begin"
    /\ \/ /\ ~CtxErr(cancelled)
          /\ tx' = Ptr(db)
          /\ u_pc' = "hash"
          /\ UNCHANGED u_err
       \/ /\ u_err' = "failed to begin transaction"
          /\ u_pc' = "ret"
          /\ UNCHANGED tx
    /\ UNCHANGED <<db, u_state, u_i, updOthers>>

\* INSERT OR REPLACE INTO page_state (id, page_hash) VALUES (1, ?)
U_Hash ==
    /\ u_pc = "hash"
    /\ \/ /\ ~CtxErr(cancelled)
          /\ tx' = Ptr(ReplaceHash(Deref(tx), Deref(u_state).PageHash))
          /\ u_pc' = "delete"
          /\ UNCHANGED <<db, u_state, u_i, u_err>>
       \/ UpdateFails("failed to update page hash")
    /\ UNCHANGED updOthers

\* DELETE FROM products
U_Delete ==
    /\ u_pc = "delete"
    /\ \/ /\ ~CtxErr(cancelled)
          /\ tx' = Ptr(DeleteProducts(Deref(tx)))
          /\ u_pc' = "prepare"
          /\ UNCHANGED <<db, u_state, u_i, u_err>>
       \/ UpdateFails("failed to delete old products")
    /\ UNCHANGED updOthers

\* stmt, err := tx.PrepareContext(ctx, "INSERT INTO products ...")
U_Prepare ==
    /\ u_pc = "prepare"
    /\ \/ /\ ~CtxErr(cancelled)
          /\ u_pc' = "insert"
          /\ u_i' = 1
          /\ UNCHANGED <<db, tx, u_state, u_err>>
       \/ UpdateFails("failed to prepare insert statement")
    /\ UNCHANGED updOthers

\* for _, p := range state.Products { stmt.ExecContext(ctx, p.Model, ...) }
U_Insert ==
    /\ u_pc = "insert"
    /\ u_i <= Len(Deref(u_state).Products)
    /\ LET p == Deref(u_state).Products[u_i]
       IN  \/ /\ ~CtxErr(cancelled)
              /\ ~UniqueViolation(Deref(tx).products, p)
              /\ tx' = Ptr([Deref(tx) EXCEPT !.products = Append(@, p)])
              /\ u_i' = u_i + 1
              /\ UNCHANGED <<db, u_pc, u_state, u_err>>
           \/ /\ ~CtxErr(cancelled)
              /\ UniqueViolation(Deref(tx).products, p)
              /\ UpdateFails(ErrUnique)
           \/ UpdateFails("failed to insert product")
    /\ UNCHANGED updOthers

\* tx.Commit()
U_Commit ==
    /\ u_pc = "insert"
    /\ u_i > Len(Deref(u_state).Products)
    /\ \/ /\ ~CtxErr(cancelled)
          /\ db' = Commit(db, Deref(tx))
          /\ subscriptions' = SubscriptionsAfterCommit(subscriptions)
          /\ tx' = nil
          /\ u_err' = NoError
          /\ u_pc' = "ret"
          /\ UNCHANGED <<u_state, u_i>>
       \/ /\ UpdateFails("failed to commit transaction")
          /\ UNCHANGED subscriptions
    /\ UNCHANGED <<getVars, cycleVars, schedVars, hist, diffVars, formatVars, notifyVars, ctxVars>>
    /\ UNCHANGED <<b_left, b_ret>>

UpdateState == U_Begin \/ U_Hash \/ U_Delete \/ U_Prepare \/ U_Insert \/ U_Commit

(***************************************************************************)
(* Repository.GetState: two queries on the database handle, outside any    *)
(* transaction.  Each sees what is committed when it runs.                 *)
(***************************************************************************)
getOthers == <<dbVars, updVars, cycleVars, schedVars, hist, diffVars, formatVars, botVars, notifyVars, ctxVars>>

\* SELECT page_hash FROM page_state WHERE id = 1
G_Hash ==
    /\ g_pc = "hash"
    /\ \/ /\ ~CtxErr(cancelled)
          /\ ErrNoRows(db)
          /\ g_ret' = [state |-> nil, err |-> ErrStateNotFound]
          /\ g_pc' = "ret"
          /\ UNCHANGED g_pageHash
       \/ /\ ~CtxErr(cancelled)
          /\ ~ErrNoRows(db)
          /\ g_pageHash' = db.page_state
          /\ g_pc' = "rows"
          /\ UNCHANGED g_ret
       \/ /\ g_ret' = [state |-> nil, err |-> "failed to get page hash"]
          /\ g_pc' = "ret"
          /\ UNCHANGED g_pageHash
    /\ UNCHANGED getOthers

\* SELECT model, type, quantity, price, image_url FROM products, and the scan
\* of its rows.
G_Rows ==
    /\ g_pc = "rows"
    /\ \/ /\ ~CtxErr(cancelled)
          /\ g_ret' = [state |-> Ptr(State(g_pageHash[1], db.products)), err |-> NoError]
       \/ \E e \in {"failed to get products", "failed to scan product", "rows iteration error"} :
              g_ret' = [state |-> nil, err |-> e]
    /\ g_pc' = "ret"
    /\ UNCHANGED <<g_pageHash, getOthers>>

GetState == G_Hash \/ G_Rows

(***************************************************************************)
(* Checker.CheckForUpdates, one action per step, and its caller runCheck.  *)
(***************************************************************************)
\* return &changes, fmt.Errorf(...): the Delta computed so far returned with
\* the error (a mutant of CycleFails).
CycleFailsWithDelta(err) ==
    /\ c_ret' = [changes |-> Ptr(changes), err |-> err]
    /\ c_pc' = "ret"

\* return nil, fmt.Errorf(...)
CycleFails(err) ==
    /\ c_ret' = [changes |-> nil, err |-> err]
    /\ c_pc' = "ret"

\* resp, err := c.parser.GetHTMLResponse(ctx): the server answers with any page,
\* or the request fails.
C_Fetch ==
    /\ c_pc = "fetch"
    /\ \/ /\ ~CtxErr(cancelled)
          /\ \E page \in Pages : resp' = Ptr(page)
          /\ c_pc' = "read"
          /\ hist' = [hist EXCEPT !.steps = Append(@, "GetHTMLResponse")]
          /\ UNCHANGED c_ret
       \/ /\ CycleFails("failed to get html response")
          /\ hist' = [hist EXCEPT !.fail = "fetch", !.steps = Append(@, "GetHTMLResponse")]
          /\ UNCHANGED resp
    /\ UNCHANGED <<body, newPageHash, oldState, newProducts, changes>>
    /\ UNCHANGED <<dbVars, updVars, getVars, schedVars, diffVars, formatVars, botVars, notifyVars, ctxVars>>

\* body, err := io.ReadAll(resp.Body); newPageHash := calculateHash(body);
\* then the call of c.repo.GetState(ctx).
C_ReadBody ==
    /\ c_pc = "read"
    /\ \/ /\ body' = resp
          /\ newPageHash' = <<calculateHash(Deref(resp))>>
          /\ c_pc' = "getState"
          /\ g_pc' = "hash"
          /\ hist' = [hist EXCEPT !.steps = Append(@, "GetState")]
          /\ UNCHANGED c_ret
       \/ /\ CycleFails("failed to read response body")
          /\ hist' = [hist EXCEPT !.fail = "read"]
          /\ UNCHANGED <<body, newPageHash, g_pc>>
    /\ UNCHANGED <<resp, oldState, newProducts, changes, g_pageHash, g_ret>>
    /\ UNCHANGED <<dbVars, updVars, schedVars, diffVars, formatVars, botVars, notifyVars, ctxVars>>

\* oldState, err := c.repo.GetState(ctx) returns: the error check and the hash
\* comparison.
C_GetStateReturn ==
    /\ c_pc = "getState"
    /\ g_pc = "ret"
    /\ g_pc' = "idle"
    /\ g_pageHash' = <<>>
    /\ g_ret' = NoGetRet
    /\ oldState' = g_ret.state
    /\ hist' = [hist EXCEPT !.getErr = g_ret.err, !.got = g_ret.state,
                            !.fail = IF g_ret.err \in {NoError, ErrStateNotFound} THEN @ ELSE "getState"]
    /\ IF g_ret.err # NoError /\ ~IsNotFound(g_ret.err)
       THEN CycleFails("failed to get old state")
       ELSE IF HashUnchanged(g_ret.err, g_ret.state, newPageHash[1])
            THEN /\ c_ret' = [changes |-> Ptr(EmptyChanges), err |-> NoError]
                 /\ c_pc' = "ret"
            ELSE /\ c_pc' = "parse"
                 /\ UNCHANGED c_ret
    /\ UNCHANGED <<resp, body, newPageHash, newProducts, changes>>
    /\ UNCHANGED <<dbVars, updVars, schedVars, diffVars, formatVars, botVars, notifyVars, ctxVars>>

\* newProducts, err := c.parser.ParseTableResponse(ctx, ...)
C_Parse ==
    /\ c_pc = "parse"
    /\ \/ /\ newProducts' = parseTableResponse(Deref(body))
          /\ c_pc' = "detect"
          /\ hist' = [hist EXCEPT !.calls.parse = @ + 1,
                                  !.parsed = parseTableResponse(Deref(body)),
                                  !.steps = Append(@, "ParseTableResponse")]
          /\ UNCHANGED c_ret
       \/ /\ CycleFails("failed to parse products from new response")
          /\ hist' = [hist EXCEPT !.calls.parse = @ + 1, !.fail = "parse",
                                  !.steps = Append(@, "ParseTableResponse")]
          /\ UNCHANGED newProducts
    /\ UNCHANGED <<resp, body, newPageHash, oldState, changes>>
    /\ UNCHANGED <<dbVars, updVars, getVars, schedVars, diffVars, formatVars, botVars, notifyVars, ctxVars>>

\* changes := detectChanges(oldProducts, newProducts); newState := &models.State{...};
\* then the call of c.repo.UpdateState(ctx, newState).
C_Detect ==
    /\ c_pc = "detect"
    /\ changes' \in detectChanges(OldProducts(oldState), newProducts)
    /\ LET after == SlicesAfterDetect(OldProducts(oldState), newProducts) IN
         /\ oldState' = IF oldState # nil
                         THEN Ptr([Deref(oldState) EXCEPT !.Products = after[1]])
                         ELSE nil
         /\ newProducts' = after[2]
         /\ u_state' = Ptr(State(newPageHash[1], after[2]))
    /\ u_pc' = "begin"
    /\ u_i' = 1
    /\ u_err' = NoError
    /\ c_pc' = "update"
    /\ hist' = [hist EXCEPT !.calls.detect = @ + 1, !.calls.update = @ + 1, !.upre = db,
                            !.steps = Append(@, "UpdateState")]
    /\ UNCHANGED <<resp, body, newPageHash, c_ret>>
    /\ UNCHANGED <<db, tx, getVars, schedVars, diffVars, formatVars, botVars, notifyVars, ctxVars>>

\* c.repo.UpdateState returns: return nil, err or return &changes, nil.
C_UpdateReturn ==
    /\ c_pc = "update"
    /\ u_pc = "ret"
    /\ u_pc' = "idle"
    /\ u_state' = nil
    /\ u_i' = 1
    /\ u_err' = NoError
    /\ IF u_err # NoError
       THEN /\ CycleFails("failed to update state in repository")
            /\ hist' = [hist EXCEPT !.fail = u_err]
       ELSE /\ c_ret' = [changes |-> Ptr(changes), err |-> NoError]
            /\ c_pc' = "ret"
            /\ hist' = [hist EXCEPT !.last = u_state, !.lastBody = body,
                                    !.lastSnap = Ptr(SnapshotOf(Deref(body)))]
    /\ UNCHANGED <<resp, body, newPageHash, oldState, newProducts, changes>>
    /\ UNCHANGED <<db, tx, getVars, schedVars, diffVars, formatVars, botVars, notifyVars, ctxVars>>

CheckForUpdates ==
    C_Fetch \/ C_ReadBody \/ C_GetStateReturn \/ C_Parse \/ C_Detect \/ C_UpdateReturn

(***************************************************************************)
(* Bot.SendChangesNotification, one action per step.  The subscribers are  *)
(* the rows of the subscriptions table (primary key chat_id) at the time   *)
(* of the query, in any order.                                             *)
(***************************************************************************)
\* The loop left at the first Send that fails (a mutant of SendLoopNext).
SendLoopStopsOnError(i, failed, subscribers) ==
    IF failed THEN Len(subscribers) + 1 ELSE i + 1

\* if err != nil { log.ErrorContext(...) }: the loop goes on to the next
\* subscriber whether or not Send failed.
SendLoopNext(i, failed, subscribers) == i + 1

\* What GetSubscribedChats may return: the rows of the table in any order.
TableReads ==
    IF subscriptions = Untracked THEN SubscriberLists ELSE SelectChatIDs(subscriptions)

notifyOthers == <<dbVars, updVars, getVars, cycleVars, schedVars, hist, diffVars, formatVars, botVars, ctxVars>>

\* if !changes.HasChanges() { return nil }
N_Guard ==
    /\ n_pc = "guard"
    /\ IF HasChanges(Deref(n_changes))
       THEN /\ n_pc' = "subs"
            /\ UNCHANGED n_err
       ELSE /\ n_pc' = "ret"
            /\ n_err' = NoError
    /\ UNCHANGED <<n_changes, n_subs, n_i, n_attempted, n_failed, notifyOthers>>

\* subscribers, err := b.repo.GetSubscribedChats(ctx); if len(subscribers) == 0 { return nil }
N_GetSubscribedChats ==
    /\ n_pc = "subs"
    /\ \/ /\ ~CtxErr(cancelled)
          /\ \E subscribers \in TableReads :
                 /\ n_subs' = subscribers
                 /\ n_pc' = IF Len(subscribers) = 0 THEN "ret" ELSE "send"
          /\ n_err' = NoError
          /\ hist' = [hist EXCEPT !.atRead = hist.lastOp]
       \/ /\ n_err' = "failed to get subscribers"
          /\ n_pc' = "ret"
          /\ UNCHANGED <<n_subs, hist>>
    /\ n_i' = 1
    /\ UNCHANGED <<n_changes, n_attempted, n_failed>>
    /\ UNCHANGED <<dbVars, updVars, getVars, cycleVars, schedVars, diffVars, formatVars, botVars, ctxVars>>

\* for _, chatID := range subscribers { _, err = b.bot.Send(recipient, ...) }:
\* an error of Send is logged and the loop goes on.
N_Send ==
    /\ n_pc = "send"
    /\ n_i <= Len(n_subs)
    /\ n_attempted' = Append(n_attempted, n_subs[n_i])
    /\ \E failed \in BOOLEAN :
           /\ n_failed' = IF failed THEN n_failed \cup {n_subs[n_i]} ELSE n_failed
           /\ n_i' = SendLoopNext(n_i, failed, n_subs)
    /\ UNCHANGED <<n_pc, n_changes, n_subs, n_err, notifyOthers>>

\* return nil after the loop
N_Return ==
    /\ n_pc = "send"
    /\ n_i > Len(n_subs)
    /\ n_err' = NoError
    /\ n_pc' = "ret"
    /\ UNCHANGED <<n_changes, n_subs, n_i, n_attempted, n_failed, notifyOthers>>

SendChangesNotification == N_Guard \/ N_GetSubscribedChats \/ N_Send \/ N_Return

(***************************************************************************)
(* main: the check at startup, then the select loop, and the process       *)
(* stopping and starting again on the same database file.                  *)
(***************************************************************************)
\* The loop starting a check on a tick without waiting for the one that runs
\* (a mutant of AtSelect).
AtSelectOrRunning == s_pc \in {"select", "runCheck"}

\* The scheduler goroutine is at the select statement.
AtSelect == s_pc = "select"

\* runCheck(ctx, logger, updateChecker, notifier) is entered.
RunCheckCall(first) ==
    /\ s_pc' = "runCheck"
    /\ inflight' = inflight + 1
    /\ c_pc' = "fetch"
    /\ resp' = nil
    /\ body' = nil
    /\ newPageHash' = <<>>
    /\ oldState' = nil
    /\ newProducts' = <<>>
    /\ changes' = EmptyChanges
    /\ c_ret' = NoCycleRet
    /\ hist' = [hist EXCEPT !.pre = db, !.calls = NoCalls, !.fail = "none",
                            !.getErr = "", !.first = first,
                            !.cancelAt = IF cancelled THEN "before" ELSE "",
                            !.notified = <<>>,
                            !.lastPre = hist.last]
    /\ UNCHANGED <<dbVars, updVars, getVars, diffVars, formatVars, botVars, notifyVars, ctxVars>>

\* Run the first check immediately on startup.
Startup ==
    /\ s_pc = "startup"
    /\ RunCheckCall(TRUE)

\* case <-ticker.C
Tick ==
    /\ AtSelect
    /\ RunCheckCall(FALSE)

\* changes, err := ch.CheckForUpdates(ctx); if err != nil
CycleFailed(ret) == ret.err # NoError

\* runCheck has something to send: err == nil and changes.HasChanges().
ShouldNotify(ret) == ~CycleFailed(ret) /\ ret.changes # nil /\ HasChanges(Deref(ret.changes))

\* The loop left for good when the cycle failed (a mutant of AfterRunCheck).
AfterRunCheckStopsOnError(ret) == IF CycleFailed(ret) THEN "stopped" ELSE "select"

\* Where main goes on once runCheck returned: runCheck has no result, its
\* `return' after a failed cycle only ends runCheck, and the caller is the
\* startup call before the loop or the ticker case inside it.
AfterRunCheck(ret) == "select"

\* botNotifier.SendChangesNotification(ctx, changes) is called.
RunCheckNotify ==
    /\ s_pc = "runCheck"
    /\ c_pc = "ret"
    /\ n_pc = "idle"
    /\ ShouldNotify(c_ret)
    /\ n_pc' = "guard"
    /\ n_changes' = c_ret.changes
    /\ hist' = [hist EXCEPT !.notified = Append(@, Deref(c_ret.changes))]
    /\ UNCHANGED <<n_subs, n_i, n_attempted, n_failed, n_err>>
    /\ UNCHANGED <<dbVars, updVars, getVars, cycleVars, schedVars, diffVars, formatVars, botVars, ctxVars>>

\* runCheck returns to the loop: the locals of the call are gone.
RunCheckReturn ==
    /\ s_pc = "runCheck"
    /\ c_pc = "ret"
    /\ IF ShouldNotify(c_ret) THEN n_pc = "ret" ELSE n_pc = "idle"
    /\ n_pc' = "idle"
    /\ n_changes' = nil
    /\ n_subs' = <<>>
    /\ n_i' = 1
    /\ n_attempted' = <<>>
    /\ n_failed' = {}
    /\ n_err' = NoError
    /\ s_pc' = AfterRunCheck(c_ret)
    /\ inflight' = inflight - 1
    /\ c_pc' = "idle"
    /\ resp' = nil
    /\ body' = nil
    /\ newPageHash' = <<>>
    /\ oldState' = nil
    /\ newProducts' = <<>>
    /\ changes' = EmptyChanges
    /\ c_ret' = NoCycleRet
    /\ hist' = [NoHist EXCEPT !.prev = IF c_ret.err = NoError THEN newPageHash ELSE nil,
                              !.last = hist.last,
                              !.lastBody = hist.lastBody,
                              !.lastSnap = hist.lastSnap,
                              !.prevFailed = (c_ret.err # NoError)]
    /\ UNCHANGED <<dbVars, updVars, getVars, diffVars, formatVars, botVars, ctxVars>>

\* The cancellation case never leaving the loop (a mutant of Shutdown).
ShutdownIgnored ==
    /\ s_pc = "select"
    /\ cancelled
    /\ UNCHANGED vars

\* case <-ctx.Done(): return
Shutdown ==
    /\ s_pc = "select"
    /\ cancelled
    /\ s_pc' = "stopped"
    /\ UNCHANGED <<inflight, dbVars, updVars, getVars, cycleVars, hist, diffVars, formatVars, botVars, notifyVars, ctxVars>>

\* The process is started again: nothing but the database file is kept.
Start ==
    /\ s_pc = "stopped"
    /\ s_pc' = "startup"
    /\ inflight' = 0
    /\ cancelled' = FALSE
    /\ UNCHANGED <<dbVars, updVars, getVars, cycleVars, hist, diffVars, formatVars, botVars, notifyVars>>

\* Where the cycle stands: before its start, at one of its steps, with its
\* store read finished ("readDone"), with its transaction committed, or returned.
CyclePoint ==
    IF c_pc = "idle" THEN "before"
    ELSE IF c_pc = "ret" THEN "returned"
    ELSE IF c_pc = "update" /\ u_pc = "ret" /\ u_err = NoError THEN "committed"
    ELSE IF c_pc = "getState" /\ g_pc = "ret" THEN "readDone"
    ELSE c_pc

\* signal.NotifyContext: SIGINT or SIGTERM arrives and ctx is done, wherever
\* the scheduler goroutine is.
Cancel ==
    /\ s_pc # "stopped"
    /\ ~cancelled
    /\ cancelled' = TRUE
    /\ hist' = [hist EXCEPT !.cancelAt = CyclePoint]
    /\ UNCHANGED <<dbVars, updVars, getVars, cycleVars, schedVars, diffVars, formatVars, botVars, notifyVars>>

Init ==
    /\ db = EmptyDB
    /\ RepoIdle
    /\ CycleIdle
    /\ s_pc = "startup"
    /\ inflight = 0
    /\ hist = NoHist
    /\ DiffOff
    /\ BotOff
    /\ FormatOff
    /\ NotifyIdle
    /\ cancelled = FALSE

Next ==
    \/ Startup
    \/ Tick
    \/ CheckForUpdates
    \/ GetState
    \/ UpdateState
    \/ RunCheckNotify
    \/ SendChangesNotification
    \/ RunCheckReturn
    \/ Shutdown
    \/ Start
    \/ Cancel

Spec == Init /\ [][Next]_vars

(***************************************************************************)
(* SpecRepo: the repository under a caller of UpdateState and a caller of  *)
(* GetState that run side by side.                                         *)
(***************************************************************************)
\* The pages whose snapshots the caller of UpdateState writes: no row, one,
\* two, a repeated model in second and in third place.
RepoPages ==
    { <<>>, <<RowA>>, <<RowAPrice, RowB>>, <<RowA, RowAPrice>>, <<RowB, RowAType, RowA>> }

InitRepo ==
    /\ db = EmptyDB
    /\ RepoIdle
    /\ CycleIdle
    /\ s_pc = "stopped"
    /\ inflight = 0
    /\ hist = NoHist
    /\ DiffOff
    /\ BotOff
    /\ FormatOff
    /\ NotifyIdle
    /\ cancelled = FALSE

W_Call ==
    /\ u_pc = "idle"
    /\ \E page \in RepoPages : u_state' = Ptr(SnapshotOf(page))
    /\ u_pc' = "begin"
    /\ u_i' = 1
    /\ u_err' = NoError
    /\ hist' = [hist EXCEPT !.upre = db, !.subsequent = FALSE, !.quiet = FALSE]
    /\ UNCHANGED <<db, tx, getVars, cycleVars, schedVars, diffVars, formatVars, botVars, notifyVars, ctxVars>>

W_Return ==
    /\ u_pc = "ret"
    /\ u_pc' = "idle"
    /\ u_state' = nil
    /\ hist' = [hist EXCEPT !.last = IF u_err = NoError THEN u_state ELSE @]
    /\ UNCHANGED <<db, tx, u_i, u_err, getVars, cycleVars, schedVars, diffVars, formatVars, botVars, notifyVars, ctxVars>>

R_Call ==
    /\ g_pc = "idle"
    /\ g_pc' = "hash"
    /\ g_pageHash' = <<>>
    /\ g_ret' = NoGetRet
    /\ hist' = [hist EXCEPT !.subsequent = (u_pc \in {"idle", "ret"} /\ u_err # NoError),
                            !.quiet = (u_pc \in {"idle", "ret"})]
    /\ UNCHANGED <<dbVars, updVars, cycleVars, schedVars, diffVars, formatVars, botVars, notifyVars, ctxVars>>

R_Return ==
    /\ g_pc = "ret"
    /\ g_pc' = "idle"
    /\ g_pageHash' = <<>>
    /\ g_ret' = NoGetRet
    /\ UNCHANGED <<dbVars, updVars, cycleVars, schedVars, hist, diffVars, formatVars, botVars, notifyVars, ctxVars>>

NextRepo == W_Call \/ UpdateState \/ W_Return \/ R_Call \/ GetState \/ R_Return

SpecRepo == InitRepo /\ [][NextRepo]_vars

(***************************************************************************)
(* SpecDiff: detectChanges applied to every pair of product lists.         *)
(***************************************************************************)
\* oldProducts is what GetState read from the products table, whose primary key
\* is the model: no model twice.  newProducts is the extractor's output, which
\* repeats a model when the page does.
InitDiff ==
    /\ d_pc = "call"
    /\ d_old \in {l \in ProductLists : \A i, j \in DOMAIN l : l[i].Model = l[j].Model => i = j}
    /\ d_new \in ProductLists
    /\ d_changes = EmptyChanges
    /\ db = EmptyDB
    /\ RepoIdle
    /\ CycleIdle
    /\ s_pc = "stopped"
    /\ inflight = 0
    /\ hist = NoHist
    /\ NotifyIdle
    /\ BotOff
    /\ FormatOff
    /\ cancelled = FALSE

DetectChanges ==
    /\ d_pc = "call"
    /\ d_changes' \in detectChanges(d_old, d_new)
    /\ d_pc' = "ret"
    /\ UNCHANGED <<d_old, d_new, dbVars, updVars, getVars, cycleVars, schedVars, hist>>
    /\ UNCHANGED <<notifyVars, ctxVars, botVars, formatVars>>

NextDiff == DetectChanges

SpecDiff == InitDiff /\ [][NextDiff]_vars

(***************************************************************************)
(* SpecNotify: SendChangesNotification called with the Deltas that         *)
(* detectChanges returns, ctx done or not.                                 *)
(***************************************************************************)
NotifyLists ==
    { <<>>,
      <<Product("A1", "t1", "5", "u1", "100")>>,
      <<Product("A1", "t1", "5", "u1", "110")>>,
      <<Product("A1", "t1", "5", "u1", "100"), Product("B2", "t1", "5", "u1", "200")>> }

NotifyDeltas == UNION {detectChanges(old, new) : old \in NotifyLists, new \in NotifyLists}

InitNotify ==
    /\ n_pc = "guard"
    /\ n_changes \in {Ptr(c) : c \in NotifyDeltas}
    /\ n_subs = <<>>
    /\ n_i = 1
    /\ n_attempted = <<>>
    /\ n_failed = {}
    /\ n_err = NoError
    /\ cancelled \in BOOLEAN
    /\ db = EmptyDB
    /\ RepoIdle
    /\ CycleIdle
    /\ s_pc = "stopped"
    /\ inflight = 0
    /\ hist = NoHist
    /\ DiffOff
    /\ BotOff
    /\ FormatOff

NextNotify == SendChangesNotification

SpecNotify == InitNotify /\ [][NextNotify]_vars

(***************************************************************************)
(* Properties of detectChanges (SpecDiff).                                 *)
(***************************************************************************)
Ids(prods) == {prods[i].Model : i \in DOMAIN prods}

\* The last record of `prods' with identifier `id'.
LastOf(prods, id) ==
    prods[CHOOSE i \in DOMAIN prods :
            /\ prods[i].Model = id
            /\ \A j \in DOMAIN prods : prods[j].Model = id => j <= i]

AddedIds == Ids(d_changes.Added)

RemovedIds == Ids(d_changes.Removed)

ChangedIds == {d_changes.Changed[i].New.Model : i \in DOMAIN d_changes.Changed}

NoRepeat(s) == \A i, j \in DOMAIN s : s[i] = s[j] => i = j

\* C7: every identifier of old or new falls in exactly one of added, removed,
\* changed, unchanged (in none of the lists): the three lists of the Delta are
\* pairwise disjoint in identifiers, hold only identifiers of old or new, and
\* hold no identifier twice.
C7_Partition ==
    d_pc = "ret" =>
        /\ AddedIds \cap RemovedIds = {}
        /\ AddedIds \cap ChangedIds = {}
        /\ RemovedIds \cap ChangedIds = {}
        /\ AddedIds \cup RemovedIds \cup ChangedIds \subseteq Ids(d_old) \cup Ids(d_new)
        /\ \A i \in DOMAIN d_changes.Changed :
               d_changes.Changed[i].Old.Model = d_changes.Changed[i].New.Model
        /\ NoRepeat([i \in DOMAIN d_changes.Added |-> d_changes.Added[i].Model])
        /\ NoRepeat([i \in DOMAIN d_changes.Removed |-> d_changes.Removed[i].Model])
        /\ NoRepeat([i \in DOMAIN d_changes.Changed |-> d_changes.Changed[i].New.Model])

\* C7 witness: one call classifies an identifier in each of the three lists.
C7_Witness ==
    /\ d_pc = "ret"
    /\ d_changes.Added # <<>>
    /\ d_changes.Removed # <<>>
    /\ d_changes.Changed # <<>>

\* C8: an identifier in both old and new gives the changed pair (old record,
\* new record) exactly when price or quantity differs, and when they do not
\* differ (only Type or ImageURL may) it is in none of the three lists.
C8_ChangeClassification ==
    d_pc = "ret" =>
        \A id \in Ids(d_old) \cap Ids(d_new) :
            LET o == LastOf(d_old, id)
                n == LastOf(d_new, id)
                significant == o.Price # n.Price \/ o.Quantity # n.Quantity
            IN  /\ significant <=> ChangeInfo(o, n) \in Range(d_changes.Changed)
                /\ \A i \in DOMAIN d_changes.Changed :
                       d_changes.Changed[i].New.Model = id => d_changes.Changed[i] = ChangeInfo(o, n)
                /\ ~significant => id \notin AddedIds \cup RemovedIds \cup ChangedIds

\* C8 witness: of two identifiers present in old and new, the one whose price
\* changed is reported as a pair and the one whose Type alone changed is not.
C8_Witness ==
    /\ d_pc = "ret"
    /\ d_old = <<Product("A1", "t1", "5", "u1", "100"), Product("B2", "t1", "5", "u1", "200")>>
    /\ d_new = <<Product("A1", "t2", "5", "u1", "100"), Product("B2", "t1", "5", "u1", "210")>>
    /\ d_changes = [Added |-> <<>>, Removed |-> <<>>,
                    Changed |-> <<ChangeInfo(d_old[2], d_new[2])>>]

\* C9 as stated: Added is the set of new records whose identifier is absent
\* from old, Removed the set of old records whose identifier is absent from new.
C9_AsStated ==
    d_pc = "ret" =>
        /\ Range(d_changes.Added) = {p \in Range(d_new) : p.Model \notin Ids(d_old)}
        /\ Range(d_changes.Removed) = {p \in Range(d_old) : p.Model \notin Ids(d_new)}

\* C9 amended: Added is, for each identifier of new that is absent from old,
\* the last new record with that identifier, once; Removed is the set of old
\* records whose identifier is absent from new, each once.  An empty new list
\* makes every old record removed; identical lists give three empty lists.
C9_AddedRemoved ==
    d_pc = "ret" =>
        /\ Range(d_changes.Added) = {LastOf(d_new, id) : id \in Ids(d_new) \ Ids(d_old)}
        /\ Len(d_changes.Added) = Cardinality(Ids(d_new) \ Ids(d_old))
        /\ Range(d_changes.Removed) = {p \in Range(d_old) : p.Model \notin Ids(d_new)}
        /\ Len(d_changes.Removed) = Cardinality(Ids(d_old) \ Ids(d_new))
        /\ d_new = <<>> => Range(d_changes.Removed) = Range(d_old) /\ d_changes.Added = <<>>
        /\ d_old = d_new => d_changes = EmptyChanges

\* C9 witness: new repeats an identifier that old does not have, and old has
\* an identifier that new does not have.
C9_Witness ==
    /\ d_pc = "ret"
    /\ Len(d_new) = 2
    /\ d_new[1].Model = d_new[2].Model
    /\ d_new[1] # d_new[2]
    /\ d_changes.Added = <<d_new[2]>>
    /\ d_changes.Removed # <<>>

(***************************************************************************)
(* Properties of the detection cycle (Spec).                               *)
(***************************************************************************)
\* The stored snapshot is the fingerprint of `page' with the records
\* extracted from it.
SnapshotIs(page) ==
    /\ db.page_state = <<calculateHash(page)>>
    /\ Range(db.products) = Range(parseTableResponse(page))
    /\ Len(db.products) = Len(parseTableResponse(page))

EmptyDelta == [changes |-> Ptr(EmptyChanges), err |-> NoError]

\* C1: a run of CheckForUpdates ends either with a Delta, no error and the
\* stored snapshot {fingerprint of the fetched bytes, records extracted from
\* them}, or with an error, no Delta and the stored snapshot (fingerprint and
\* records) as it was before the run; no transaction is left open.
C1_CycleAtomicity ==
    c_pc = "ret" =>
        /\ tx = nil
        /\ IF c_ret.err = NoError
           THEN /\ c_ret.changes # nil
                /\ body # nil
                /\ SnapshotIs(Deref(body))
           ELSE /\ c_ret.changes = nil
                /\ db = hist.pre

\* C1 witness: a cycle that read a stored snapshot, extracted two other
\* records and wrote them in the transaction fails at Commit.
C1_Witness ==
    /\ c_pc = "ret"
    /\ hist.fail = "failed to commit transaction"
    /\ hist.pre.products # <<>>
    /\ Len(newProducts) = 2
    /\ newProducts # hist.pre.products
    /\ c_ret.err # NoError
    /\ db = hist.pre

\* C4: when the snapshot stored at the start of the cycle has the fingerprint
\* of the bytes fetched, the cycle calls neither ParseTableResponse nor
\* detectChanges nor UpdateState and leaves the store alone, and, GetState
\* having returned that snapshot, returns an empty Delta and no error.
C4_ShortCircuit ==
    (c_pc = "ret" /\ body # nil /\ hist.pre.page_state = newPageHash) =>
        /\ hist.calls = NoCalls
        /\ db = hist.pre
        /\ hist.getErr # ErrStateNotFound
        /\ hist.getErr = NoError => c_ret = EmptyDelta

\* C4 witness: the first cycle of a process, started against a snapshot written
\* before, short-circuits.
C4_Witness ==
    /\ c_pc = "ret"
    /\ hist.first
    /\ db.products # <<>>
    /\ hist.pre.page_state = newPageHash
    /\ c_ret = EmptyDelta

\* C5: when the previous cycle returned no error and this cycle fetched the
\* same bytes, this cycle makes no UpdateState call, leaves the store alone and,
\* its store read succeeding, returns an empty Delta.
C5_Idempotence ==
    (c_pc = "ret" /\ body # nil /\ hist.prev = newPageHash) =>
        /\ hist.calls.update = 0
        /\ db = hist.pre
        /\ hist.getErr # ErrStateNotFound
        /\ hist.getErr = NoError => c_ret = EmptyDelta

\* C5 witness: two cycles in a row fetched the same page of two records.
C5_Witness ==
    /\ c_pc = "ret"
    /\ ~hist.first
    /\ hist.prev = newPageHash
    /\ Len(db.products) = 2
    /\ c_ret = EmptyDelta

\* C6: at most one runCheck is in flight, the scheduler being inside it; and
\* from the cycle's store read to its replace the stored snapshot is the one
\* it read, so no other cycle has replaced it in between.
C6_OneCycleAtATime ==
    /\ inflight <= 1
    /\ inflight = 1 <=> s_pc = "runCheck"
    /\ c_pc # "idle" => s_pc = "runCheck"
    /\ (c_pc \in {"parse", "detect", "update"} /\ u_pc # "ret") =>
           IF oldState = nil
           THEN db = EmptyDB
           ELSE db = [page_state |-> <<Deref(oldState).PageHash>>,
                      products |-> Deref(oldState).Products]

\* C6 witness: a cycle started by a tick is inserting the records of its
\* replace, having read a stored snapshot.
C6_Witness ==
    /\ s_pc = "runCheck"
    /\ ~hist.first
    /\ inflight = 1
    /\ c_pc = "update"
    /\ u_pc = "insert"
    /\ u_i = 2
    /\ oldState # nil

\* The cycle met no failure of its environment: every collaborator call
\* succeeded, or the only error is the products table refusing a repeated key.
NoFault == hist.fail \in {"none", ErrUnique}

\* C10: a cycle to which GetState reported NotFound (and whose environment did
\* not fail) returns a Delta that has every extracted record's identifier in
\* Added, with Removed and Changed empty, and has committed the snapshot
\* {fingerprint of the fetched bytes, extracted records}.
C10_FirstRunCompleteness ==
    (c_pc = "ret" /\ hist.getErr = ErrStateNotFound /\ NoFault) =>
        /\ c_ret.err = NoError
        /\ c_ret.changes # nil
        /\ Ids(Deref(c_ret.changes).Added) = Ids(newProducts)
        /\ Deref(c_ret.changes).Removed = <<>>
        /\ Deref(c_ret.changes).Changed = <<>>
        /\ db.page_state = newPageHash
        /\ Ids(db.products) = Ids(newProducts)

(***************************************************************************)
(* Properties of the repository (SpecRepo).                                *)
(***************************************************************************)
UpdateErrors ==
    { "failed to begin transaction", "failed to update page hash",
      "failed to delete old products", "failed to prepare insert statement",
      "failed to insert product", ErrUnique, "failed to commit transaction" }

\* C2: a failed UpdateState returns one of its six errors, leaves no
\* transaction open and leaves the database as it was when it was called; a
\* GetState called after it returned (and before another UpdateState is
\* called) returns that snapshot, or NotFound if there was none.
C2_ReplaceAtomicity ==
    /\ (u_pc = "ret" /\ u_err # NoError) =>
           /\ u_err \in UpdateErrors
           /\ tx = nil
           /\ db = hist.upre
    /\ (g_pc = "ret" /\ hist.subsequent) =>
           /\ g_ret.err = ErrStateNotFound => hist.upre.page_state = <<>>
           /\ g_ret.err = NoError =>
                  /\ hist.upre.page_state # <<>>
                  /\ g_ret.state = Ptr(State(hist.upre.page_state[1], hist.upre.products))

\* C2 witness: after an UpdateState that failed at its third insert over a
\* stored snapshot, GetState returns that snapshot.
C2_Witness ==
    /\ g_pc = "ret"
    /\ hist.subsequent
    /\ u_err = "failed to insert product"
    /\ u_i = 3
    /\ hist.upre.products # <<>>
    /\ g_ret.err = NoError
    /\ g_ret.state = Ptr(State(hist.upre.page_state[1], hist.upre.products))

\* C3: the fingerprint and the records a GetState returns belong to one
\* snapshot, whatever UpdateState does meanwhile.
C3_NoIntermediateRead ==
    (g_pc = "ret" /\ g_ret.err = NoError) =>
        \E page \in RepoPages : Deref(g_ret.state) = SnapshotOf(page)

(***************************************************************************)
(* Properties of repeated identifiers, overwrite and the NotFound answer.  *)
(***************************************************************************)
RepeatsIdentifier(prods) ==
    \E i, j \in DOMAIN prods : i < j /\ prods[i].Model = prods[j].Model

RowsOf(rows, id) == {i \in DOMAIN rows : rows[i].Model = id}

\* C11: a cycle whose extracted records repeat an identifier (and whose
\* environment did not fail) succeeds, and the committed snapshot holds for
\* each identifier exactly one record, the last occurrence.
C11_LastWriteWins ==
    (c_pc = "ret" /\ NoFault /\ hist.calls.update = 1 /\ RepeatsIdentifier(newProducts)) =>
        /\ c_ret.err = NoError
        /\ c_ret.changes # nil
        /\ db.page_state = newPageHash
        /\ \A id \in Ids(newProducts) :
               /\ Cardinality(RowsOf(db.products, id)) = 1
               /\ LastOf(newProducts, id) \in Range(db.products)

\* The state argument of the last UpdateState call that committed.
LastCommitted == IF u_pc = "ret" /\ u_err = NoError THEN u_state ELSE hist.last

\* The tables that hold exactly the snapshot `state' (nil: no snapshot).
StoreOf(state) ==
    IF state = nil THEN EmptyDB
    ELSE [page_state |-> <<Deref(state).PageHash>>, products |-> Deref(state).Products]

\* C12: the tables always hold exactly the snapshot of the last UpdateState
\* call that committed, no row of an earlier snapshot staying, and a GetState
\* that runs between UpdateState calls and succeeds returns exactly it.
C12_TotalOverwrite ==
    /\ db = StoreOf(LastCommitted)
    /\ (g_pc = "ret" /\ hist.quiet /\ g_ret.err = NoError) => g_ret.state = LastCommitted

\* C12 witness: after a snapshot of two records, a snapshot of one record was
\* committed, and GetState returns the one record alone.
C12_Witness ==
    /\ g_pc = "ret"
    /\ hist.quiet
    /\ g_ret.err = NoError
    /\ Len(hist.upre.products) = 2
    /\ Len(Deref(g_ret.state).Products) = 1
    /\ Deref(g_ret.state).PageHash # hist.upre.page_state[1]
    /\ \E i \in DOMAIN hist.upre.products :
           hist.upre.products[i].Model \notin Ids(Deref(g_ret.state).Products)

\* The errors of GetState's own queries.
GetErrors ==
    { "failed to get page hash", "failed to get products", "failed to scan product",
      "rows iteration error" }

\* C13: a GetState that runs between UpdateState calls, its queries not failing,
\* returns ErrStateNotFound exactly when no UpdateState call has committed;
\* after a commit it returns the committed snapshot, also when that snapshot
\* has no record.
C13_NotFoundIffNeverCommitted ==
    (g_pc = "ret" /\ hist.quiet /\ g_ret.err \notin GetErrors) =>
        /\ g_ret.err = ErrStateNotFound <=> LastCommitted = nil
        /\ g_ret.err = ErrStateNotFound => g_ret.state = nil
        /\ LastCommitted # nil => g_ret = [state |-> LastCommitted, err |-> NoError]

\* C13 witness: the snapshot of the page without rows was committed, and
\* GetState returns its fingerprint with no record.
C13_Witness ==
    /\ g_pc = "ret"
    /\ hist.quiet
    /\ LastCommitted = Ptr(SnapshotOf(<<>>))
    /\ g_ret = [state |-> Ptr(State(calculateHash(<<>>), <<>>)), err |-> NoError]

(***************************************************************************)
(* Properties of failures, cancellation and notification (Spec).           *)
(***************************************************************************)
\* The steps of a cycle that can fail: hist.fail names the one that did.
FailedSteps == {"fetch", "read", "getState", "parse"} \cup UpdateErrors

\* C14: a cycle in which fetch, body read, store read (other than NotFound),
\* extraction or replace failed returns an error and no Delta; a Delta is
\* never returned with a failed step or with an error; and runCheck calls
\* SendChangesNotification for no cycle that returned an error.
C14_NoSwallowedFailure ==
    /\ hist.fail \in FailedSteps \cup {"none"}
    /\ (c_pc \notin {"idle", "ret"}) => hist.fail = "none"
    /\ (c_pc = "ret" /\ hist.fail # "none") =>
           /\ c_ret.err # NoError
           /\ c_ret.changes = nil
    /\ (c_pc = "ret" /\ c_ret.changes # nil) =>
           /\ hist.fail = "none"
           /\ c_ret.err = NoError
    /\ (c_pc = "ret" /\ c_ret.err # NoError) =>
           /\ n_pc = "idle"
           /\ hist.notified = <<>>
           /\ n_attempted = <<>>

\* C14 witness: a cycle that computed a Delta with an added record failed at
\* Commit and returned the error alone; nothing went to the notifier.
C14_Witness ==
    /\ s_pc = "runCheck"
    /\ c_pc = "ret"
    /\ hist.fail = "failed to commit transaction"
    /\ changes.Added # <<>>
    /\ c_ret = [changes |-> nil, err |-> "failed to update state in repository"]
    /\ hist.notified = <<>>
    /\ n_pc = "idle"

\* C15: when GetState fails in its hash query, its products query, the scan
\* of a row or the row iteration, its error is not ErrStateNotFound and it
\* returns no state; the cycle returns "failed to get old state" with no
\* Delta, having called neither ParseTableResponse nor detectChanges nor
\* UpdateState, and the store is as it was.
C15_ReadFailureIsNotFirstRun ==
    /\ (g_pc = "ret" /\ g_ret.err \in GetErrors) =>
           /\ g_ret.err # ErrStateNotFound
           /\ g_ret.state = nil
    /\ (c_pc = "ret" /\ hist.getErr \in GetErrors) =>
           /\ hist.calls = NoCalls
           /\ c_ret = [changes |-> nil, err |-> "failed to get old state"]
           /\ newProducts = <<>>
           /\ changes = EmptyChanges
           /\ db = hist.pre
    /\ (c_pc \in {"parse", "detect", "update"}) => hist.getErr \in {NoError, ErrStateNotFound}
    /\ (c_pc \in {"parse", "detect", "update"} /\ hist.getErr = ErrStateNotFound) =>
           hist.pre.page_state = <<>>

\* C15 witness: over a stored snapshot with records, the scan of a row fails
\* and the cycle ends there.
C15_Witness ==
    /\ c_pc = "ret"
    /\ hist.getErr = "failed to scan product"
    /\ db.products # <<>>
    /\ hist.calls = NoCalls
    /\ c_ret.err = "failed to get old state"

\* `c' is the difference from the records `old' to the records `new', stated
\* by sets: the added, the removed and the changed identifiers, each once.
IsDeltaOf(c, old, new) ==
    LET added == Ids(new) \ Ids(old)
        removed == Ids(old) \ Ids(new)
        changed == {id \in Ids(old) \cap Ids(new) :
                       \/ LastOf(old, id).Price # LastOf(new, id).Price
                       \/ LastOf(old, id).Quantity # LastOf(new, id).Quantity}
    IN  /\ Range(c.Added) = {LastOf(new, id) : id \in added}
        /\ Len(c.Added) = Cardinality(added)
        /\ Range(c.Removed) = {LastOf(old, id) : id \in removed}
        /\ Len(c.Removed) = Cardinality(removed)
        /\ Range(c.Changed) = {ChangeInfo(LastOf(old, id), LastOf(new, id)) : id \in changed}
        /\ Len(c.Changed) = Cardinality(changed)

\* C16: a cycle that returns a Delta it computed (no short-circuit) returns the
\* difference from the records of the last snapshot committed before it (none:
\* the empty collection) to the records extracted from the bytes it fetched,
\* whether or not the cycle before it failed.
C16_RetryFromLastCommitted ==
    (c_pc = "ret" /\ c_ret.err = NoError /\ hist.calls.detect = 1) =>
        /\ newProducts = parseTableResponse(Deref(body))
        /\ IsDeltaOf(Deref(c_ret.changes),
                     IF hist.lastPre = nil THEN <<>> ELSE Deref(hist.lastPre).Products,
                     newProducts)

\* C16 witness: the cycle before failed, and this one returns a Delta with a
\* changed and a removed record against the snapshot committed earlier.
C16_Witness ==
    /\ c_pc = "ret"
    /\ c_ret.err = NoError
    /\ hist.prevFailed
    /\ hist.lastPre # nil
    /\ hist.calls.detect = 1
    /\ Deref(c_ret.changes).Changed # <<>>
    /\ Deref(c_ret.changes).Removed # <<>>

\* The points of a cycle at which a call that takes ctx still lies ahead on
\* every path: before it begins, during fetch and body read, during the store
\* read, during extraction and diff, and inside UpdateState before Commit.
CancelPoints == {"before", "fetch", "read", "getState", "parse", "detect", "update"}

NonEmptyDelta(ret) ==
    /\ ret.err = NoError
    /\ ret.changes # nil
    /\ Deref(ret.changes) # EmptyChanges

\* C18: what runCheck hands to SendChangesNotification is the non-empty Delta
\* its cycle returned, once, the snapshot that produced it being committed;
\* the notifier runs inside that runCheck only; and runCheck does not return
\* from a cycle that returned a non-empty Delta before SendChangesNotification
\* was called with it and returned.
C18_NotifiedOnce ==
    /\ [](hist.notified # <<>> =>
             /\ s_pc = "runCheck"
             /\ c_pc = "ret"
             /\ NonEmptyDelta(c_ret)
             /\ hist.notified = <<Deref(c_ret.changes)>>
             /\ n_changes = c_ret.changes
             /\ hist.calls.update = 1
             /\ db = StoreOf(Ptr(State(newPageHash[1], newProducts))))
    /\ [](n_pc # "idle" => hist.notified # <<>>)
    /\ [][(c_pc = "ret" /\ NonEmptyDelta(c_ret) /\ c_pc' # "ret") =>
              (hist.notified = <<Deref(c_ret.changes)>> /\ n_pc = "ret")]_vars

\* C18 witness: a Delta with a removed record alone was handed over after its
\* snapshot was committed, and a send was attempted.
C18_Witness ==
    /\ s_pc = "runCheck"
    /\ n_pc = "ret"
    /\ Deref(c_ret.changes).Added = <<>>
    /\ Deref(c_ret.changes).Removed # <<>>
    /\ hist.notified = <<Deref(c_ret.changes)>>
    /\ db.page_state = newPageHash
    /\ n_attempted # <<>>

\* C20: the store never goes from holding a snapshot back to holding none; at
\* every moment it holds exactly the snapshot of the last UpdateState that
\* committed, whole, whatever cycles failed or were cancelled since; and once
\* a snapshot was committed, the GetState of a later cycle never answers
\* NotFound and, when it succeeds, returns that snapshot.
C20_SnapshotLifecycle ==
    /\ [][db.page_state # <<>> => db'.page_state # <<>>]_vars
    /\ [](db = StoreOf(LastCommitted))
    /\ []((c_pc = "getState" /\ g_pc = "ret" /\ hist.lastPre # nil) =>
             /\ g_ret.err # ErrStateNotFound
             /\ g_ret.err = NoError => g_ret.state = hist.lastPre)

\* C20 witness: a snapshot with records was committed, the cycle after it
\* failed, and the GetState of the next cycle returns the snapshot.
C20_Witness ==
    /\ c_pc = "getState"
    /\ g_pc = "ret"
    /\ hist.prevFailed
    /\ hist.lastPre # nil
    /\ g_ret = [state |-> hist.lastPre, err |-> NoError]
    /\ Deref(hist.lastPre).Products # <<>>

(***************************************************************************)
(* Properties of SendChangesNotification (SpecNotify).                     *)
(***************************************************************************)
\* C19: Send is called for the subscribers in their order, a failed Send
\* stopping nothing: when SendChangesNotification returns, Send was called
\* once for every subscriber that was read, whichever of them failed, and the
\* only error it can return is that of reading the subscribers.
C19_DeliveryGoesOn ==
    /\ n_failed \subseteq Range(n_attempted)
    /\ n_pc = "send" => n_attempted = SubSeq(n_subs, 1, n_i - 1)
    /\ n_pc = "ret" =>
           /\ n_attempted = n_subs
           /\ n_err \in {NoError, "failed to get subscribers"}
           /\ n_err # NoError => n_subs = <<>>

\* C19 witness: of two subscribers the first one's Send failed, the second
\* was still tried, and nil is returned.
C19_Witness ==
    /\ n_pc = "ret"
    /\ Len(n_subs) = 2
    /\ n_subs[1] \in n_failed
    /\ n_attempted = n_subs
    /\ n_err = NoError

(***************************************************************************)
(* SpecParse: parseTableResponse alone.  A first cycle (no snapshot stored) *)
(* has fetched a document of up to MaxRows + 1 table rows and calls the    *)
(* extractor.                                                              *)
(***************************************************************************)
InitParse ==
    /\ \E page \in ParsePages :
          /\ resp = Ptr(page)
          /\ body = Ptr(page)
          /\ newPageHash = <<calculateHash(page)>>
    /\ c_pc = "parse"
    /\ oldState = nil
    /\ newProducts = <<>>
    /\ changes = EmptyChanges
    /\ c_ret = NoCycleRet
    /\ s_pc = "runCheck"
    /\ inflight = 1
    /\ hist = [NoHist EXCEPT !.getErr = ErrStateNotFound, !.first = TRUE,
                            !.steps = <<"GetHTMLResponse", "GetState">>]
    /\ db = EmptyDB
    /\ RepoIdle
    /\ NotifyIdle
    /\ DiffOff
    /\ BotOff
    /\ FormatOff
    /\ cancelled = FALSE

NextParse == C_Parse

SpecParse == InitParse /\ [][NextParse]_vars

\* The positions of the rows of `page' that have exactly five cells.
FiveCellRows(page) == {i \in DOMAIN page : Len(page[i]) = 5}

\* C22: parseTableResponse returns exactly one record per row of exactly five
\* cells, in the order of the rows, and skips every other row (shorter or
\* longer) without an error; a document with no such row gives the empty
\* list and no error.
C22_ExtractorTolerance ==
    c_pc = "detect" =>
        LET page == Deref(body)
            rows == FiveCellRows(page)
        IN  /\ c_ret.err = NoError
            /\ hist.fail = "none"
            /\ Len(newProducts) = Cardinality(rows)
            /\ rows = {} => newProducts = <<>>
            /\ \E f \in [DOMAIN newProducts -> rows] :
                  /\ \A j, k \in DOMAIN newProducts : j < k => f[j] < f[k]
                  /\ \A k \in DOMAIN newProducts :
                        /\ newProducts[k].Model = TrimSpace(page[f[k]][1])
                        /\ newProducts[k].Type = TrimSpace(page[f[k]][2])
                        /\ newProducts[k].Quantity = TrimSpace(page[f[k]][3])
                        /\ newProducts[k].ImageURL = TrimSpace(page[f[k]][4])
                        /\ newProducts[k].Price = TrimSpace(page[f[k]][5])

\* C22 witness: a document whose rows are a short row, a row of five cells
\* and a row of six cells has been extracted to one record.
C22_Witness ==
    /\ c_pc = "detect"
    /\ Deref(body) = <<RowShort, RowB, RowLong>>
    /\ Len(newProducts) = 1
    /\ newProducts[1].Model = "B2"

(***************************************************************************)
(* The orchestrator's treatment of the values it holds.                    *)
(***************************************************************************)
\* C21: CheckForUpdates and detectChanges leave the old state GetState
\* returned (fingerprint and records) and the extracted records as they were
\* returned, through detectChanges and UpdateState to the end of the cycle, and
\* the state handed to UpdateState is a value built from the new fingerprint
\* and the extracted records, never the old state.
C21_NoMutationInPlace ==
    /\ c_pc \in {"parse", "detect", "update", "ret"} /\ hist.getErr # "" =>
            oldState = hist.got
    /\ c_pc \in {"detect", "update"} => newProducts = hist.parsed
    /\ c_pc = "ret" /\ hist.calls.detect = 1 => newProducts = hist.parsed
    /\ c_pc = "update" =>
            /\ u_state = Ptr(State(newPageHash[1], hist.parsed))
            /\ u_state # oldState
            /\ u_state # hist.got

\* C21 witness: a cycle that read a stored snapshot with records and extracted
\* two other records has run detectChanges and UpdateState to its return.
C21_Witness ==
    /\ c_pc = "update"
    /\ u_pc = "ret"
    /\ hist.got # nil
    /\ Deref(hist.got).Products # <<>>
    /\ Len(hist.parsed) = 2
    /\ hist.parsed # Deref(hist.got).Products
    /\ oldState = hist.got

\* The collaborator operations of a cycle, in the order of the code.
StepOrder == <<"GetHTMLResponse", "GetState", "ParseTableResponse", "UpdateState">>

\* C23: within one cycle the collaborator operations are called in the order
\* fetch, GetState, ParseTableResponse, UpdateState, each at most once;
\* GetState only after the fetch and the reading of the body succeeded;
\* ParseTableResponse only after GetState returned NotFound or a snapshot with
\* another fingerprint; UpdateState only after the extraction succeeded; and
\* a cycle whose fetch failed does not touch the store.
C23_StepOrdering ==
    /\ hist.steps = SubSeq(StepOrder, 1, Len(hist.steps))
    /\ g_pc # "idle" => Len(hist.steps) = 2 /\ c_pc = "getState"
    /\ u_pc # "idle" => Len(hist.steps) = 4 /\ c_pc = "update"
    /\ Len(hist.steps) >= 2 =>
            /\ resp # nil
            /\ body = resp
            /\ newPageHash # <<>>
            /\ hist.fail \notin {"fetch", "read"}
    /\ Len(hist.steps) >= 3 =>
            \/ hist.getErr = ErrStateNotFound /\ hist.got = nil
            \/ /\ hist.getErr = NoError
               /\ hist.got # nil
               /\ Deref(hist.got).PageHash # newPageHash[1]
    /\ Len(hist.steps) = 4 =>
            /\ hist.fail \notin {"fetch", "read", "getState", "parse"}
            /\ hist.calls.parse = 1
            /\ newProducts = hist.parsed
    /\ hist.fail \in {"fetch", "read"} =>
            /\ Len(hist.steps) = 1
            /\ g_pc = "idle" /\ u_pc = "idle" /\ tx = nil
            /\ db = hist.pre

\* C23 witness: a cycle that found a snapshot with another fingerprint has
\* called the four operations and returned its Delta.
C23_Witness ==
    /\ c_pc = "ret"
    /\ hist.steps = StepOrder
    /\ hist.getErr = NoError
    /\ c_ret.err = NoError
    /\ db # hist.pre

\* C24: the scheduler runs one cycle at startup, before any tick can start
\* one; a failed cycle does not stop the loop: the loop is left only once a
\* shutdown signal was received, and whenever the scheduler waits at the
\* select, after a failed cycle as after any other, a tick starts a new cycle.
C24_SchedulerLoop ==
    /\ s_pc = "startup" =>
            /\ c_pc = "idle"
            /\ ~ENABLED Tick
            /\ ENABLED (Startup /\ c_pc' = "fetch" /\ hist'.first)
    /\ s_pc = "runCheck" /\ c_pc = "ret" /\ CycleFailed(c_ret) =>
            ENABLED (RunCheckReturn /\ s_pc' = "select" /\ hist'.prevFailed)
    /\ s_pc = "stopped" => cancelled
    /\ s_pc = "select" =>
            ENABLED (Tick /\ s_pc' = "runCheck" /\ c_pc' = "fetch" /\ ~hist'.first)

\* C24 witness: no shutdown signal received, a tick that followed a failed
\* cycle has started a new cycle.
C24_Witness ==
    /\ s_pc = "runCheck"
    /\ c_pc = "fetch"
    /\ ~hist.first
    /\ hist.prevFailed
    /\ ~cancelled

\* The fingerprint of the bytes fetched by the cycle that committed the stored
\* snapshot, with the extractor's output for these bytes: of the running
\* cycle's bytes when its UpdateState has just committed, else of those of the
\* last cycle whose UpdateState returned nil.
CommittedSnapshot ==
    IF c_pc = "update" /\ u_pc = "ret" /\ u_err = NoError
    THEN Ptr(SnapshotOf(Deref(body)))
    ELSE hist.lastSnap

\* C25: whenever a snapshot is stored, its fingerprint is the fingerprint of
\* the bytes fetched by the cycle that committed it, and its records are what
\* the extractor returns for these bytes.
C25_StoredSnapshotOfFetchedBytes ==
    db # EmptyDB =>
        /\ CommittedSnapshot # nil
        /\ db.page_state = <<Deref(CommittedSnapshot).PageHash>>
        /\ Range(db.products) = Range(Deref(CommittedSnapshot).Products)
        /\ Len(db.products) = Len(Deref(CommittedSnapshot).Products)

\* C25 witness: a second snapshot has replaced a first one with other
\* records, and a later cycle is writing a third in its transaction.
C25_Witness ==
    /\ hist.lastBody = Ptr(<<RowB, RowShort>>)
    /\ db.products = parseTableResponse(<<RowB, RowShort>>)
    /\ hist.pre = db
    /\ hist.lastPre # nil /\ hist.lastPre = hist.last
    /\ c_pc = "update"
    /\ u_pc = "insert"
    /\ u_i > Len(Deref(u_state).Products)
    /\ Deref(tx).products # db.products
    /\ Len(Deref(tx).products) = 2

\* The diff of `old' (no identifier twice) and `new' is empty: the same
\* identifiers, and for each the price and the quantity of its last new record
\* are those of the old record.
DiffIsEmpty(old, new) ==
    /\ Ids(old) = Ids(new)
    /\ \A i \in DOMAIN old :
          /\ LastOf(new, old[i].Model).Price = old[i].Price
          /\ LastOf(new, old[i].Model).Quantity = old[i].Quantity

\* C26: a cycle (whose environment did not fail) that read a snapshot with
\* another fingerprint than the fetched bytes', the diff of the stored and the
\* extracted records being empty, replaces the snapshot by {fingerprint of the
\* fetched bytes, extracted records}, returns an empty Delta and no error, and
\* sends no notification.
C26_EmptyDiffStillReplaces ==
    (/\ c_pc = "ret"
     /\ NoFault
     /\ hist.getErr = NoError
     /\ hist.got # nil
     /\ Deref(hist.got).PageHash # newPageHash[1]
     /\ DiffIsEmpty(Deref(hist.got).Products, parseTableResponse(Deref(body)))) =>
        /\ c_ret = EmptyDelta
        /\ SnapshotIs(Deref(body))
        /\ hist.notified = <<>>
        /\ n_pc = "idle"
        /\ ~ENABLED RunCheckNotify

\* The number of entries of the Delta SendChangesNotification was called with.
Entries(c) == Len(c.Added) + Len(c.Removed) + Len(c.Changed)

\* C27: SendChangesNotification calls Send only for a Delta with at least one
\* added, removed or changed entry and at least one subscriber read; for an
\* empty Delta or an empty subscriber list it returns nil having sent nothing;
\* when reading the subscribers fails it returns that error having sent
\* nothing.
C27_NotificationGuards ==
    n_pc # "idle" =>
        /\ n_attempted # <<>> =>
                /\ Entries(Deref(n_changes)) >= 1
                /\ n_subs # <<>>
                /\ n_err = NoError
        /\ n_pc = "ret" /\ Entries(Deref(n_changes)) = 0 =>
                /\ n_attempted = <<>>
                /\ n_err = NoError
        /\ n_pc = "ret" /\ n_err = NoError /\ n_subs = <<>> => n_attempted = <<>>
        /\ n_pc = "ret" /\ n_err # NoError =>
                /\ n_err = "failed to get subscribers"
                /\ n_attempted = <<>>
                /\ n_failed = {}

\* C27 witness: a Delta whose only entry is a changed record has been sent
\* to two subscribers.
C27_Witness ==
    /\ n_pc = "ret"
    /\ Deref(n_changes).Added = <<>>
    /\ Deref(n_changes).Removed = <<>>
    /\ Len(Deref(n_changes).Changed) = 1
    /\ Len(n_attempted) = 2
    /\ n_err = NoError


(***************************************************************************)
(* SpecBot: the bot.  notifier.Start() runs the command handlers in their  *)
(* own goroutine while the scheduler goroutine calls                       *)
(* SendChangesNotification; both use the subscriptions table, each through *)
(* one SQL statement at a time.                                            *)
(***************************************************************************)
botOthers == <<dbVars, updVars, getVars, cycleVars, schedVars, diffVars, formatVars, notifyVars, ctxVars>>

\* subscribeHandler, for /start and /subscribe from chat chatID.  A chat that
\* is not allowed is told so and left (Leave may fail); for an allowed chat
\* SubscribeChat is called, and its failure is answered and not returned.
subscribeHandler(chatID) ==
    /\ subscriptions # Untracked
    /\ IF ~allowedChats(chatID)
       THEN /\ b_left' = b_left \cup {chatID}
            /\ \E err \in {NoError, "failed to leave chat"} :
                   b_ret' = [chat |-> chatID, reply |-> "private", err |-> err]
            /\ UNCHANGED <<subscriptions, hist>>
       ELSE /\ \/ /\ subscriptions' = InsertOrIgnore(subscriptions, chatID)
                  /\ hist' = [hist EXCEPT !.lastOp[chatID] = "subscribe"]
                  /\ b_ret' = [chat |-> chatID, reply |-> "subscribed", err |-> NoError]
               \/ /\ b_ret' = [chat |-> chatID, reply |-> "failed to subscribe", err |-> NoError]
                  /\ UNCHANGED <<subscriptions, hist>>
            /\ UNCHANGED b_left
    /\ UNCHANGED botOthers

\* unsubscribeHandler, for /unsubscribe from chat chatID: UnsubscribeChat is
\* called whatever the chat.
unsubscribeHandler(chatID) ==
    /\ subscriptions # Untracked
    /\ \/ /\ subscriptions' = DeleteWhere(subscriptions, chatID)
          /\ hist' = [hist EXCEPT !.lastOp[chatID] = "unsubscribe"]
          /\ b_ret' = [chat |-> chatID, reply |-> "unsubscribed", err |-> NoError]
       \/ /\ b_ret' = [chat |-> chatID, reply |-> "failed to unsubscribe",
                        err |-> "failed to unsubscribe chat"]
          /\ UNCHANGED <<subscriptions, hist>>
    /\ UNCHANGED <<b_left, botOthers>>

\* The Deltas the scheduler has for the bot: an empty one and one with an
\* added record.
BotDeltas ==
    {EmptyChanges, [EmptyChanges EXCEPT !.Added = <<Product("A1", "t1", "5", "u1", "100")>>]}

\* botNotifier.SendChangesNotification(ctx, changes) is called.
NotifyCall ==
    /\ n_pc = "idle"
    /\ \E c \in BotDeltas : n_changes' = Ptr(c)
    /\ n_pc' = "guard"
    /\ UNCHANGED <<n_subs, n_i, n_attempted, n_failed, n_err>>
    /\ UNCHANGED <<dbVars, updVars, getVars, cycleVars, schedVars, hist, diffVars, formatVars, botVars, ctxVars>>

\* SendChangesNotification has returned to its caller.
NotifyReturn ==
    /\ n_pc = "ret"
    /\ n_pc' = "idle"
    /\ n_changes' = nil
    /\ n_subs' = <<>>
    /\ n_i' = 1
    /\ n_attempted' = <<>>
    /\ n_failed' = {}
    /\ n_err' = NoError
    /\ UNCHANGED <<dbVars, updVars, getVars, cycleVars, schedVars, hist, diffVars, formatVars, botVars, ctxVars>>

InitBot ==
    /\ subscriptions = <<>>
    /\ b_left = {}
    /\ b_ret = NoCommand
    /\ NotifyIdle
    /\ db = EmptyDB
    /\ RepoIdle
    /\ CycleIdle
    /\ s_pc = "select"
    /\ inflight = 0
    /\ hist = NoHist
    /\ DiffOff
    /\ FormatOff
    /\ cancelled = FALSE

NextBot ==
    \/ \E chatID \in EventChats : subscribeHandler(chatID)
    \/ \E chatID \in EventChats : unsubscribeHandler(chatID)
    \/ NotifyCall
    \/ SendChangesNotification
    \/ NotifyReturn

SpecBot == InitBot /\ [][NextBot]_vars

(***************************************************************************)
(* Properties of the bot (SpecBot).                                        *)
(***************************************************************************)
\* C28: from an empty subscriptions table and with a fixed allow-list, after
\* any /start, /subscribe and /unsubscribe events from any chats, every
\* subscribed chat is on the allow-list, so every chat a notification is sent
\* to is; a subscribe event from a chat outside the allow-list adds no row and
\* has the bot leave that chat.
C28_Authorization ==
    /\ Range(subscriptions) \subseteq ChatIDs
    /\ Range(n_subs) \subseteq ChatIDs
    /\ Range(n_attempted) \subseteq ChatIDs
    /\ \A c \in Strangers : hist.lastOp[c] # "subscribe"
    /\ b_ret.reply \in {"private", "subscribed", "failed to subscribe"} =>
            (b_ret.chat \notin ChatIDs <=> b_ret.reply = "private")
    /\ b_ret.reply = "private" =>
            /\ b_ret.chat \in b_left
            /\ b_ret.chat \notin Range(subscriptions)

\* C28 witness: the chat outside the allow-list has asked to subscribe and was
\* left, both allowed chats are subscribed, and a notification went to these
\* two.
C28_Witness ==
    /\ b_left = Strangers
    /\ Range(subscriptions) = ChatIDs
    /\ n_pc = "ret"
    /\ Range(n_attempted) = ChatIDs
    /\ b_ret.reply = "private"

\* The chats whose last successful repository operation, as recorded in
\* `ops', was SubscribeChat.
LastSubscribed(ops) == {c \in EventChats : ops[c] = "subscribe"}

\* GetSubscribedChats of the running SendChangesNotification has returned rows.
HasRead == n_pc \in {"send", "ret"} /\ n_err = NoError /\ HasChanges(Deref(n_changes))

\* C29: the subscriptions are a set: the table holds one row for each chat
\* whose last successful operation was SubscribeChat and no other row,
\* however often the chat subscribed, and an UnsubscribeChat for a chat
\* without a row succeeds and leaves the rows alone; GetSubscribedChats returns
\* exactly these chats, each once.
C29_SubscriptionSet ==
    /\ NoRepeat(subscriptions)
    /\ Range(subscriptions) = LastSubscribed(hist.lastOp)
    /\ b_ret.reply = "unsubscribed" =>
            /\ b_ret.err = NoError
            /\ hist.lastOp[b_ret.chat] = "unsubscribe"
            /\ b_ret.chat \notin Range(subscriptions)
    /\ HasRead =>
            /\ NoRepeat(n_subs)
            /\ Range(n_subs) = LastSubscribed(hist.atRead)

\* C29 witness: two chats are subscribed, a chat that never subscribed has
\* unsubscribed successfully, and GetSubscribedChats has returned the two.
C29_Witness ==
    /\ b_ret = [chat |-> 103, reply |-> "unsubscribed", err |-> NoError]
    /\ hist.lastOp[103] = "unsubscribe"
    /\ Len(subscriptions) = 2
    /\ HasRead
    /\ Len(n_subs) = 2
    /\ hist.atRead = hist.lastOp

\* C30: the command handlers running beside a broadcast, the chats one call of
\* SendChangesNotification sends to are exactly the chats subscribed at the
\* moment its GetSubscribedChats ran, each once: a chat whose unsubscribe had
\* completed by then is sent nothing, and the subscribes and unsubscribes that
\* complete during the broadcast change nothing of it.
C30_BroadcastSnapshot ==
    HasRead =>
        /\ NoRepeat(n_attempted)
        /\ Range(n_attempted) \subseteq LastSubscribed(hist.atRead)
        /\ n_attempted = SubSeq(n_subs, 1, Len(n_attempted))
        /\ n_pc = "ret" => Range(n_attempted) = LastSubscribed(hist.atRead)
        /\ \A c \in EventChats :
              hist.atRead[c] = "unsubscribe" => c \notin Range(n_attempted)

\* C30 witness: when the subscribers were read, 101 was subscribed and 102 had
\* unsubscribed; during the broadcast 101 unsubscribed and 102 subscribed
\* again; the notification went to 101 alone.
C30_Witness ==
    /\ n_pc = "ret"
    /\ HasRead
    /\ hist.atRead[101] = "subscribe"
    /\ hist.atRead[102] = "unsubscribe"
    /\ hist.lastOp[101] = "unsubscribe"
    /\ hist.lastOp[102] = "subscribe"
    /\ n_attempted = <<101>>
    /\ subscriptions = <<102>>

(***************************************************************************)
(* SpecStore: the database file holds the snapshot (page_state, products)  *)
(* and the subscriptions.  The scheduler goroutine's cycles call GetState  *)
(* and UpdateState while the handlers' goroutine serves commands.          *)
(***************************************************************************)
InitStore ==
    /\ db = EmptyDB
    /\ RepoIdle
    /\ CycleIdle
    /\ s_pc = "runCheck"
    /\ inflight = 1
    /\ hist = NoHist
    /\ DiffOff
    /\ FormatOff
    /\ NotifyIdle
    /\ subscriptions = <<>>
    /\ b_left = {}
    /\ b_ret = NoCommand
    /\ cancelled = FALSE

\* A cycle calls GetState and, once it has returned, UpdateState.
NextStore ==
    \/ W_Call /\ g_pc = "idle"
    \/ UpdateState
    \/ W_Return
    \/ R_Call /\ u_pc = "idle"
    \/ GetState
    \/ R_Return
    \/ \E chatID \in EventChats : subscribeHandler(chatID)
    \/ \E chatID \in EventChats : unsubscribeHandler(chatID)

SpecStore == InitStore /\ [][NextStore]_vars

\* C31: the two persisted states are independent: no step of GetState or
\* UpdateState, in a call that succeeds or in one that fails, changes the
\* subscriptions table, and no subscribe or unsubscribe command changes the
\* stored snapshot or the open transaction, however the calls and the
\* commands interleave.
C31_Independence ==
    [][/\ (u_pc' # u_pc \/ g_pc' # g_pc \/ db' # db \/ tx' # tx) =>
              subscriptions' = subscriptions
       /\ (b_ret' # b_ret \/ b_left' # b_left \/ subscriptions' # subscriptions
              \/ hist'.lastOp # hist.lastOp) =>
              /\ db' = db
              /\ tx' = tx
              /\ u_pc' = u_pc
              /\ g_pc' = g_pc]_vars

\* C31 witness: with two chats subscribed and a third's command answered, a
\* second snapshot has been committed over a first one, and a transaction that
\* failed before was rolled back.
C31_Witness ==
    /\ Len(subscriptions) = 2
    /\ b_ret.reply = "private"
    /\ u_pc = "ret"
    /\ u_err = NoError
    /\ hist.upre # EmptyDB
    /\ db # hist.upre
    /\ db.products # <<>>

(***************************************************************************)
(* SpecShutdown: one run of the process, the server answering with one of  *)
(* three pages.  The scheduler goroutine keeps running (weak fairness of   *)
(* the steps of runCheck), and the select, which chooses at random among   *)
(* its ready cases, takes case <-ctx.Done() at last when it is ready every *)
(* time the loop comes back to it (strong fairness of Shutdown).           *)
(***************************************************************************)
ShutdownPages == {<<>>, <<RowA>>, <<RowAPrice, RowB>>}

\* The steps of one runCheck call after it was entered.
RunCheckSteps ==
    \/ CheckForUpdates /\ (resp' # resp => Deref(resp') \in ShutdownPages)
    \/ GetState
    \/ UpdateState
    \/ RunCheckNotify
    \/ SendChangesNotification
    \/ RunCheckReturn

NextShutdown ==
    \/ Startup
    \/ Tick
    \/ RunCheckSteps
    \/ Shutdown
    \/ Cancel

SpecShutdown ==
    /\ Init
    /\ [][NextShutdown]_vars
    /\ WF_vars(Startup)
    /\ WF_vars(RunCheckSteps)
    /\ SF_vars(Shutdown)

\* C32: once a shutdown signal has cancelled the context the scheduler loop
\* exits in the end (the select choosing fairly between the tick and the
\* cancellation), and every cycle started after the signal returns an error
\* and no Delta, calls neither the extractor nor UpdateState, and leaves the
\* stored snapshot as it was.
C32_Shutdown ==
    /\ cancelled ~> s_pc = "stopped"
    /\ [](c_pc = "ret" /\ hist.cancelAt = "before" =>
            /\ c_ret.err # NoError
            /\ c_ret.changes = nil
            /\ hist.calls = NoCalls
            /\ db = hist.pre)

\* C32 witness: the signal having arrived while the scheduler waited with a
\* snapshot stored, a tick was taken first and the cycle it started has
\* failed.
C32_Witness ==
    /\ cancelled
    /\ s_pc = "runCheck"
    /\ c_pc = "ret"
    /\ ~hist.first
    /\ hist.cancelAt = "before"
    /\ db.products # <<>>
    /\ c_ret.err # NoError

(***************************************************************************)
(* SpecFormat: formatChangesMessage called once on a Delta detectChanges   *)
(* returns.  The model names are short, or as long as makes the text of a  *)
(* Delta that adds that one record exactly maxMessageLength bytes, or one  *)
(* byte more.                                                              *)
(***************************************************************************)
RECURSIVE Repeat(_, _)
Repeat(str, n) ==
    IF n = 0 THEN ""
    ELSE LET half == Repeat(str, n \div 2) IN
         half \o half \o (IF n % 2 = 1 THEN str ELSE "")

Dates == {"04.11.2026", "29.02.2000"}

\* The bytes of a one-record text that are not the model name.
OneRecordOverhead ==
    Len(builder([EmptyChanges EXCEPT !.Added = <<Product("", "t1", "5", "u1", "100")>>], "04.11.2026"))

FormatUniverse ==
    { Product("A1", "t1", "5", "u1", "100"),
      Product("A1", "t1", "7", "u1", "110"),
      Product(Repeat("m", maxMessageLength - OneRecordOverhead), "t1", "5", "u1", "100"),
      Product(Repeat("n", maxMessageLength - OneRecordOverhead + 1), "t1", "5", "u1", "100") }

FormatLists == SeqsUpTo(FormatUniverse, MaxLen)

FormatDeltas == UNION {detectChanges(old, new) : old \in FormatLists, new \in FormatLists}

FormatChangesMessage ==
    /\ f_pc = "call"
    /\ f_text' = formatChangesMessage(f_changes, f_now)
    /\ f_pc' = "ret"
    /\ UNCHANGED <<f_changes, f_now>>
    /\ UNCHANGED <<dbVars, updVars, getVars, cycleVars, schedVars, hist, diffVars, botVars, notifyVars, ctxVars>>

InitFormat ==
    /\ f_pc = "call"
    /\ f_changes \in FormatDeltas
    /\ f_now \in Dates
    /\ f_text = ""
    /\ db = EmptyDB
    /\ RepoIdle
    /\ CycleIdle
    /\ s_pc = "runCheck"
    /\ inflight = 1
    /\ hist = NoHist
    /\ DiffOff
    /\ NotifyIdle
    /\ BotOff
    /\ cancelled = FALSE

NextFormat == FormatChangesMessage

SpecFormat == InitFormat /\ [][NextFormat]_vars

\* C33: the text formatChangesMessage returns is never longer than 4096
\* bytes: a full text longer than 4096 bytes is returned as its first 4046
\* bytes followed by the truncation notice, and a full text of at most 4096
\* bytes is returned as it is.
C33_MessageLimit ==
    f_pc = "ret" =>
        LET full == builder(f_changes, f_now) IN
        /\ Len(f_text) <= 4096
        /\ Len(full) > 4096 =>
               f_text = SubSeq(full, 1, 4046) \o "\n\n... (the message was truncated)"
        /\ Len(full) <= 4096 => f_text = full

\* C33 witness: a full text of 4097 bytes, one more than the limit, was cut
\* to 4046 bytes and the notice of 33.
C33_Witness ==
    /\ f_pc = "ret"
    /\ Len(builder(f_changes, f_now)) = 4097
    /\ Len(f_text) = 4046 + 33
    /\ f_text # builder(f_changes, f_now)

=============================================================================
